---- MODULE Spec2Model ----
(***************************************************************************)
(* Model of the climate-visualizer frontend: the dashboard (App.js), the   *)
(* comparative-analysis, forecasting and correlation screens and the map   *)
(* colour lookup.  Each screen is a React component; an action of the      *)
(* model is one event handler together with the effects React runs for the *)
(* state change before the next event is handled, or the settling of one   *)
(* request that is in flight.                                              *)
(***************************************************************************)
EXTENDS Integers, Sequences, FiniteSets, TLC

\* ------------------------------------------------------------------------
\* Generic helpers
\* ------------------------------------------------------------------------

\* A nullable number: None is JavaScript null / undefined, Some(x) the number x
None == << >>
Some(x) == <<x>>

\* The empty string of a text state variable; text is a sequence of characters
EMPTY == << >>

RemoveAt(s, i) == [j \in 1..(Len(s) - 1) |-> IF j < i THEN s[j] ELSE s[j + 1]]

RECURSIVE Join(_, _)
\* Array.prototype.join: the parts separated by sep
Join(parts, sep) ==
  IF parts = << >> THEN << >>
  ELSE IF Len(parts) = 1 THEN parts[1]
  ELSE parts[1] \o <<sep>> \o Join(Tail(parts), sep)

Range(s) == {s[i] : i \in DOMAIN s}

\* ------------------------------------------------------------------------
\* State
\* ------------------------------------------------------------------------

\* Dashboard (App.js)
VARIABLES
  selectedCountry, selectedCity, selectedPollutant, startDate, endDate,
  countries, cities, pollutants,
  data,        \* body of the last /data response handled
  loading,
  dataReqs,    \* /data requests in flight, in the order they were issued
  citiesReqs,  \* /cities requests in flight: the country each one asks for
  metaReqs,    \* which of the mount-time requests are in flight
  latestDone,  \* history: how the most recently issued /data request ended
  changes      \* history: number of filter changes so far

appVars ==
  <<selectedCountry, selectedCity, selectedPollutant, startDate, endDate,
    countries, cities, pollutants, data, loading, dataReqs, citiesReqs, metaReqs,
    latestDone, changes>>

\* Dashboard: the data effect's URL builder applied to arbitrary filter values
VARIABLES
  urlCriteria,  \* filter values of a render
  urlBuilt      \* the URL the data effect builds for them

urlVars == <<urlCriteria, urlBuilt>>

\* Dashboard: the Avg AQI summary card
VARIABLES
  cardData,  \* rows of the /data response the summary cards are rendered from
  avgCard    \* text of the Avg AQI card

cardVars == <<cardData, avgCard>>

\* NotificationProvider (App.js)
VARIABLES
  notifications  \* newest first

notifVars == <<notifications>>

\* ComparativeAnalysisScreen
VARIABLES
  cmpMode, cmpOptions, cmpSelected, cmpResults, cmpLoading, cmpError, cmpBenchmark, cmpK,
  cmpOptionReqs,  \* option-list requests in flight: the mode each one asks for
  cmpPosts,       \* comparative-analysis requests in flight: their bodies
  cmpEvents       \* history: number of user events so far

cmpVars ==
  <<cmpMode, cmpOptions, cmpSelected, cmpResults, cmpLoading, cmpError, cmpBenchmark, cmpK,
    cmpOptionReqs, cmpPosts, cmpEvents>>

\* ForecastingScreen
VARIABLES
  fcCities, fcPollutants, fcSelectedCity, fcSelectedPollutant,
  fcResult,   \* forecast, historical, forecasted, anomalies, anomalyThreshold, pollutantSeries
  fcLoading, fcError, fcScenarioPollutant, fcScenarioReduction, fcShowScenario,
  fcListReqs,  \* which of the mount-time requests are in flight
  fcReqs,      \* forecast requests in flight
  fcEvents     \* history: number of user events so far

fcVars ==
  <<fcCities, fcPollutants, fcSelectedCity, fcSelectedPollutant, fcResult, fcLoading, fcError,
    fcScenarioPollutant, fcScenarioReduction, fcShowScenario, fcListReqs, fcReqs, fcEvents>>

\* CorrelationAnalysisScreen
VARIABLES
  correlations, corrLoading, corrError,
  corrFetching  \* whether the mount-time request is in flight

corrVars == <<correlations, corrLoading, corrError, corrFetching>>

\* CorrelationAnalysisScreen: sampleAndJitter applied to arbitrary arrays
VARIABLES
  sjX, sjY, sjMaxPoints,  \* arguments of a call
  sjPoints,               \* the array it returns
  sjCalled                \* the call has returned

sjVars == <<sjX, sjY, sjMaxPoints, sjPoints, sjCalled>>

\* MapSection: getAQIColor applied to an arbitrary AQI
VARIABLES
  markerAqi,   \* AQI of a marker
  markerColor  \* colour of its icon

mapVars == <<markerAqi, markerColor>>


\* CorrelationAnalysisScreen: the renders of one scatterplot
VARIABLES
  scScatter,  \* the scatter object of the response, None before it arrives
  scRender    \* what the latest render of the plot shows, None before the first

scVars == <<scScatter, scRender>>

\* PollutantCompositionScreen: the summary of the selected city
VARIABLES
  pcCityData,  \* data[selectedCity]: the pollutants of the city, in key order
  pcDominant   \* the dominant pollutant the summary card shows

pcVars == <<pcCityData, pcDominant>>

\* TemporalPatternsScreen
VARIABLES
  tpData,      \* the response, None before it arrives
  tpLoading, tpError,
  tpFetching,  \* whether the mount-time request is in flight
  tpReloads    \* how often Retry has reloaded the page

tpVars == <<tpData, tpLoading, tpError, tpFetching, tpReloads>>

\* CityTrendsScreen, with the Trend Analyzer behind GET /api/city-aqi-trends
VARIABLES
  ctCityData,  \* cityTrends[selectedCity], None before the response
  ctLoading, ctError,
  ctFetching,  \* whether the mount-time request is in flight
  ctRows,      \* the rows of the Pollution Spikes table
  ctBadge      \* the trend badge

ctVars == <<ctCityData, ctLoading, ctError, ctFetching, ctRows, ctBadge>>

\* Dataset Store
VARIABLES
  dsStore,  \* the observation table, None until it is loaded
  dsFirst,  \* criteria and result of the first filter call, None before it
  dsLast    \* criteria and result of the latest filter call, None before it

dsVars == <<dsStore, dsFirst, dsLast>>

\* the notification centre of the header (App.js)
VARIABLES
  notifOpen,  \* whether the dropdown is open
  ntOp        \* the latest call of the provider: name, id and a tick that
              \* alternates from call to call; None before the first

ntVars == <<notifOpen, ntOp>>

\* dark mode (App.js) and the useDarkMode hook of ForecastingScreen
VARIABLES
  darkMode,
  lsTheme,     \* localStorage 'theme', None when nothing is stored
  rootDark,    \* whether document.documentElement has the class 'dark'
  prefersDark, \* whether (prefers-color-scheme: dark) matches
  dmStart,     \* what the latest start-up read and the darkMode it began with
  fsMounted,   \* whether ForecastingScreen is mounted
  isDark       \* the hook's state, FALSE while the screen is not mounted

dmVars == <<darkMode, lsTheme, rootDark, prefersDark, dmStart, fsMounted, isDark>>

\* the forecast chart of ForecastingScreen
VARIABLES
  chResult,  \* historical, forecasted and anomalies of the render, None before it
  chChart    \* the chart data of the render, None before it

chVars == <<chResult, chChart>>
vars ==
  <<appVars, urlVars, cardVars, notifVars, cmpVars, fcVars, corrVars, sjVars, mapVars,
    scVars, pcVars, tpVars, ctVars, dsVars, ntVars, dmVars, chVars>>

\* what the steps of one component leave alone
notApp ==
  <<urlVars, cardVars, notifVars, cmpVars, fcVars, corrVars, sjVars, mapVars, scVars,
    pcVars, tpVars, ctVars, dsVars, ntVars, dmVars, chVars>>
notUrl ==
  <<appVars, cardVars, notifVars, cmpVars, fcVars, corrVars, sjVars, mapVars, scVars,
    pcVars, tpVars, ctVars, dsVars, ntVars, dmVars, chVars>>
notCards ==
  <<appVars, urlVars, notifVars, cmpVars, fcVars, corrVars, sjVars, mapVars, scVars,
    pcVars, tpVars, ctVars, dsVars, ntVars, dmVars, chVars>>
notCmp ==
  <<appVars, urlVars, cardVars, fcVars, corrVars, sjVars, mapVars, scVars, pcVars, tpVars,
    ctVars, dsVars, ntVars, dmVars, chVars>>
notFc ==
  <<appVars, urlVars, cardVars, notifVars, cmpVars, corrVars, sjVars, mapVars, scVars,
    pcVars, tpVars, ctVars, dsVars, ntVars, dmVars, chVars>>
notCorr ==
  <<appVars, urlVars, cardVars, cmpVars, fcVars, sjVars, mapVars, scVars, pcVars, tpVars,
    ctVars, dsVars, ntVars, dmVars, chVars>>
notSj ==
  <<appVars, urlVars, cardVars, notifVars, cmpVars, fcVars, corrVars, mapVars, scVars,
    pcVars, tpVars, ctVars, dsVars, ntVars, dmVars, chVars>>
notMap ==
  <<appVars, urlVars, cardVars, notifVars, cmpVars, fcVars, corrVars, sjVars, scVars,
    pcVars, tpVars, ctVars, dsVars, ntVars, dmVars, chVars>>
notSc ==
  <<appVars, urlVars, cardVars, notifVars, cmpVars, fcVars, corrVars, sjVars, mapVars,
    pcVars, tpVars, ctVars, dsVars, ntVars, dmVars, chVars>>
notPc ==
  <<appVars, urlVars, cardVars, notifVars, cmpVars, fcVars, corrVars, sjVars, mapVars,
    scVars, tpVars, ctVars, dsVars, ntVars, dmVars, chVars>>
notTp ==
  <<appVars, urlVars, cardVars, cmpVars, fcVars, corrVars, sjVars, mapVars, scVars, pcVars,
    ctVars, dsVars, ntVars, dmVars, chVars>>
notCt ==
  <<appVars, urlVars, cardVars, notifVars, cmpVars, fcVars, corrVars, sjVars, mapVars,
    scVars, pcVars, tpVars, dsVars, ntVars, dmVars, chVars>>
notDs ==
  <<appVars, urlVars, cardVars, notifVars, cmpVars, fcVars, corrVars, sjVars, mapVars,
    scVars, pcVars, tpVars, ctVars, ntVars, dmVars, chVars>>
notNt ==
  <<appVars, urlVars, cardVars, cmpVars, fcVars, corrVars, sjVars, mapVars, scVars, pcVars,
    tpVars, ctVars, dsVars, dmVars, chVars>>
notDm ==
  <<appVars, urlVars, cardVars, notifVars, cmpVars, fcVars, corrVars, sjVars, mapVars,
    scVars, pcVars, tpVars, ctVars, dsVars, ntVars, chVars>>
notCh ==
  <<appVars, urlVars, cardVars, notifVars, cmpVars, fcVars, corrVars, sjVars, mapVars,
    scVars, pcVars, tpVars, ctVars, dsVars, ntVars, dmVars>>

\* ------------------------------------------------------------------------
\* Dashboard (App.js): input domains
\* ------------------------------------------------------------------------

\* Country, city and pollutant names of the data set, as character sequences.
India == <<"I", "n", "d", "i", "a">>
TandT == <<"T", "&", "T">>
Delhi == <<"D", "e", "l", "h", "i">>
PortOfSpain == <<"P", " ", "S">>
NO2ppb == <<"N", "O", "2", " ", "(", "p", "p", "b", ")">>
Day1 == <<"2", "0", "2", "4", "-", "0", "1", "-", "0", "1">>
Day2 == <<"2", "0", "2", "4", "-", "0", "2", "-", "0", "1">>

\* what GET /countries, /pollutants and /cities?country= answer
CountryList == <<India, TandT>>
PollutantList == <<NO2ppb>>
CitiesOf(country) ==
  IF country = India THEN <<Delhi>>
  ELSE IF country = TandT THEN <<PortOfSpain>>
  ELSE << >>

\* values a date input can deliver
StartDates == {EMPTY, Day1}
EndDates == {EMPTY, Day2}

\* bound on the filter changes (select, date input, search click, Reset) of a run
MaxChanges == 3
\* bound on the rows of a /data response shown by the summary cards
MaxRows == 3

\* AQI values of the rows of a /data response; None is a missing AQI
AQIValues == {None, Some(0), Some(40), Some(55), Some(100)}
RECURSIVE SeqsUpTo(_, _)
SeqsUpTo(S, n) ==
  IF n = 0 THEN {<< >>}
  ELSE LET shorter == SeqsUpTo(S, n - 1)
       IN  shorter \cup {Append(s, x) : s \in {t \in shorter : Len(t) = n - 1}, x \in S}
DataBodies == {[i \in DOMAIN a |-> [AQI |-> a[i]]] : a \in SeqsUpTo(AQIValues, MaxRows)}

\* ------------------------------------------------------------------------
\* Dashboard (App.js): the /data URL
\* ------------------------------------------------------------------------

API_BASE == "http://127.0.0.1:5000/api"

\* characters encodeURIComponent leaves alone: A-Z a-z 0-9 - _ . ! ~ * ' ( )
Unreserved ==
  {"A", "B", "C", "D", "E", "F", "G", "H", "I", "J", "K", "L", "M", "N", "O", "P", "Q",
   "R", "S", "T", "U", "V", "W", "X", "Y", "Z",
   "a", "b", "c", "d", "e", "f", "g", "h", "i", "j", "k", "l", "m", "n", "o", "p", "q",
   "r", "s", "t", "u", "v", "w", "x", "y", "z",
   "0", "1", "2", "3", "4", "5", "6", "7", "8", "9",
   "-", "_", ".", "!", "~", "*", "'", "(", ")"}

\* the escape sequence of a reserved character (one token per escape)
PercentEscape(c) ==
  CASE c = " " -> "%20"
    [] c = "&" -> "%26"
    [] c = "=" -> "%3D"
    [] c = "?" -> "%3F"
    [] c = "/" -> "%2F"
    [] c = "%" -> "%25"
    [] OTHER -> "%??"

EncodeNoEscape(s) == s
encodeURIComponent(s) ==
  [i \in DOMAIN s |-> IF s[i] \in Unreserved THEN s[i] ELSE PercentEscape(s[i])]

\* the params array of the data effect: one entry per truthy filter
DataParamsAlways(country, city, pollutant, start, end) ==
  << <<"country=">> \o encodeURIComponent(country),
     <<"city=">> \o encodeURIComponent(city),
     <<"pollutant=">> \o encodeURIComponent(pollutant),
     <<"start_date=">> \o start,
     <<"end_date=">> \o end >>
DataParams(country, city, pollutant, start, end) ==
  (IF country # EMPTY THEN << <<"country=">> \o encodeURIComponent(country) >> ELSE << >>)
  \o (IF city # EMPTY THEN << <<"city=">> \o encodeURIComponent(city) >> ELSE << >>)
  \o (IF pollutant # EMPTY THEN << <<"pollutant=">> \o encodeURIComponent(pollutant) >> ELSE << >>)
  \o (IF start # EMPTY THEN << <<"start_date=">> \o start >> ELSE << >>)
  \o (IF end # EMPTY THEN << <<"end_date=">> \o end >> ELSE << >>)

\* `${API_BASE}/data${params.length ? '?' + params.join('&') : ''}`
DataUrl(country, city, pollutant, start, end) ==
  LET params == DataParams(country, city, pollutant, start, end)
  IN  <<API_BASE, "/data">> \o (IF Len(params) > 0 THEN <<"?">> \o Join(params, "&") ELSE << >>)

\* ------------------------------------------------------------------------
\* Dashboard (App.js): requests
\* ------------------------------------------------------------------------

Criteria(country, city, pollutant, start, end) ==
  [country |-> country, city |-> city, pollutant |-> pollutant,
   start_date |-> start, end_date |-> end]

CurrentCriteria ==
  Criteria(selectedCountry, selectedCity, selectedPollutant, startDate, endDate)

\* useState([]): data before any response, an array without rows
NoData == [rowsFor |-> << >>]

\* the fetch of the data effect for one render's filter values; the request
\* keeps the values it was built from (criteria) beside its URL
DataRequest(country, city, pollutant, start, end) ==
  [url |-> DataUrl(country, city, pollutant, start, end),
   criteria |-> Criteria(country, city, pollutant, start, end),
   latest |-> TRUE]

\* the data effect: setLoading(true) and one more request in flight
IssueData(reqs, country, city, pollutant, start, end) ==
  Append([i \in DOMAIN reqs |-> [reqs[i] EXCEPT !.latest = FALSE]],
         DataRequest(country, city, pollutant, start, end))

\* state after the first render and its effects
InitApp ==
  /\ selectedCountry = EMPTY
  /\ selectedCity = EMPTY
  /\ selectedPollutant = EMPTY
  /\ startDate = EMPTY
  /\ endDate = EMPTY
  /\ countries = << >>
  /\ cities = << >>
  /\ pollutants = << >>
  /\ data = NoData
  /\ loading = TRUE
  /\ dataReqs = IssueData(<< >>, EMPTY, EMPTY, EMPTY, EMPTY, EMPTY)
  /\ citiesReqs = << >>
  /\ metaReqs = {"countries", "pollutants"}
  /\ latestDone = "pending"
  /\ changes = 0

\* ------------------------------------------------------------------------
\* Dashboard (App.js): handlers with the effects they trigger
\* ------------------------------------------------------------------------

\* country select / global search: the cities effect and the data effect run
\* for the new country; the cities effect clears the city, and when that
\* changes the city the data effect runs once more
SetSelectedCountry(c) ==
  /\ c \in Range(countries) \cup {EMPTY}
  /\ c # selectedCountry
  /\ changes < MaxChanges
  /\ changes' = changes + 1
  /\ selectedCountry' = c
  /\ IF c # EMPTY
     THEN citiesReqs' = Append(citiesReqs, c) /\ cities' = cities
     ELSE citiesReqs' = citiesReqs /\ cities' = << >>
  /\ selectedCity' = EMPTY
  /\ LET first == IssueData(dataReqs, c, selectedCity, selectedPollutant, startDate, endDate)
     IN  dataReqs' = IF selectedCity # EMPTY
                     THEN IssueData(first, c, EMPTY, selectedPollutant, startDate, endDate)
                     ELSE first
  /\ loading' = TRUE
  /\ latestDone' = "pending"
  /\ UNCHANGED <<selectedPollutant, startDate, endDate, countries, pollutants, data,
                 metaReqs>>
  /\ UNCHANGED notApp

\* city select (enabled once a country is selected) / global search over cities
SetSelectedCity(c) ==
  /\ c \in Range(cities) \/ (c = EMPTY /\ selectedCountry # EMPTY)
  /\ c # selectedCity
  /\ changes < MaxChanges
  /\ changes' = changes + 1
  /\ selectedCity' = c
  /\ dataReqs' = IssueData(dataReqs, selectedCountry, c, selectedPollutant, startDate, endDate)
  /\ loading' = TRUE
  /\ latestDone' = "pending"
  /\ UNCHANGED <<selectedCountry, selectedPollutant, startDate, endDate, countries, cities,
                 pollutants, data, citiesReqs, metaReqs>>
  /\ UNCHANGED notApp

SetSelectedPollutant(p) ==
  /\ p \in Range(pollutants) \cup {EMPTY}
  /\ p # selectedPollutant
  /\ changes < MaxChanges
  /\ changes' = changes + 1
  /\ selectedPollutant' = p
  /\ dataReqs' = IssueData(dataReqs, selectedCountry, selectedCity, p, startDate, endDate)
  /\ loading' = TRUE
  /\ latestDone' = "pending"
  /\ UNCHANGED <<selectedCountry, selectedCity, startDate, endDate, countries, cities,
                 pollutants, data, citiesReqs, metaReqs>>
  /\ UNCHANGED notApp

SetStartDate(d) ==
  /\ d \in StartDates
  /\ d # startDate
  /\ changes < MaxChanges
  /\ changes' = changes + 1
  /\ startDate' = d
  /\ dataReqs' = IssueData(dataReqs, selectedCountry, selectedCity, selectedPollutant, d, endDate)
  /\ loading' = TRUE
  /\ latestDone' = "pending"
  /\ UNCHANGED <<selectedCountry, selectedCity, selectedPollutant, endDate, countries, cities,
                 pollutants, data, citiesReqs, metaReqs>>
  /\ UNCHANGED notApp

SetEndDate(d) ==
  /\ d \in EndDates
  /\ d # endDate
  /\ changes < MaxChanges
  /\ changes' = changes + 1
  /\ endDate' = d
  /\ dataReqs' = IssueData(dataReqs, selectedCountry, selectedCity, selectedPollutant, startDate, d)
  /\ loading' = TRUE
  /\ latestDone' = "pending"
  /\ UNCHANGED <<selectedCountry, selectedCity, selectedPollutant, startDate, countries, cities,
                 pollutants, data, citiesReqs, metaReqs>>
  /\ UNCHANGED notApp

\* Reset button: all five filters emptied in one render
ResetFilters ==
  /\ CurrentCriteria # Criteria(EMPTY, EMPTY, EMPTY, EMPTY, EMPTY)
  /\ changes < MaxChanges
  /\ changes' = changes + 1
  /\ selectedCountry' = EMPTY
  /\ selectedCity' = EMPTY
  /\ selectedPollutant' = EMPTY
  /\ startDate' = EMPTY
  /\ endDate' = EMPTY
  /\ cities' = IF selectedCountry # EMPTY THEN << >> ELSE cities
  /\ dataReqs' = IssueData(dataReqs, EMPTY, EMPTY, EMPTY, EMPTY, EMPTY)
  /\ loading' = TRUE
  /\ latestDone' = "pending"
  /\ UNCHANGED <<countries, pollutants, data, citiesReqs, metaReqs>>
  /\ UNCHANGED notApp

\* the body the server answers a /data URL with: the store's rows for the
\* criteria of that URL, the same on every call
ResponseTo(url) == [rowsFor |-> url]

\* what the .then of a /data request stores in data: the body of its response
StoreIfLatest(req, old) == IF req.latest THEN ResponseTo(req.url) ELSE old
StoreData(req, old) == ResponseTo(req.url)

\* a /data request resolves: .then(d => { setData(d); setLoading(false) })
DataResponse(i) ==
  /\ i \in DOMAIN dataReqs
  /\ dataReqs' = RemoveAt(dataReqs, i)
  /\ data' = StoreData(dataReqs[i], data)
  /\ loading' = FALSE
  /\ latestDone' = IF dataReqs[i].latest THEN "ok" ELSE latestDone
  /\ UNCHANGED <<selectedCountry, selectedCity, selectedPollutant, startDate, endDate,
                 countries, cities, pollutants, citiesReqs, metaReqs, changes>>
  /\ UNCHANGED notApp

\* a /data request rejects: .catch(() => setLoading(false))
DataFailure(i) ==
  /\ i \in DOMAIN dataReqs
  /\ dataReqs' = RemoveAt(dataReqs, i)
  /\ loading' = FALSE
  /\ latestDone' = IF dataReqs[i].latest THEN "failed" ELSE latestDone
  /\ UNCHANGED <<selectedCountry, selectedCity, selectedPollutant, startDate, endDate,
                 countries, cities, pollutants, data, citiesReqs, metaReqs, changes>>
  /\ UNCHANGED notApp

\* a /cities request resolves (.then(setCities)) or rejects (nothing handles it)
CitiesResponse(i, ok) ==
  /\ i \in DOMAIN citiesReqs
  /\ citiesReqs' = RemoveAt(citiesReqs, i)
  /\ cities' = IF ok THEN CitiesOf(citiesReqs[i]) ELSE cities
  /\ UNCHANGED <<selectedCountry, selectedCity, selectedPollutant, startDate, endDate,
                 countries, pollutants, data, loading, dataReqs, metaReqs, latestDone, changes>>
  /\ UNCHANGED notApp

\* the mount-time /countries and /pollutants requests settle
MetaResponse(which, ok) ==
  /\ which \in metaReqs
  /\ metaReqs' = metaReqs \ {which}
  /\ countries' = IF which = "countries" /\ ok THEN CountryList ELSE countries
  /\ pollutants' = IF which = "pollutants" /\ ok THEN PollutantList ELSE pollutants
  /\ UNCHANGED <<selectedCountry, selectedCity, selectedPollutant, startDate, endDate,
                 cities, data, loading, dataReqs, citiesReqs, latestDone, changes>>
  /\ UNCHANGED notApp

NextApp ==
  \/ \E c \in Range(CountryList) \cup {EMPTY} : SetSelectedCountry(c)
  \/ \E c \in Range(CitiesOf(India)) \cup Range(CitiesOf(TandT)) \cup {EMPTY} : SetSelectedCity(c)
  \/ \E p \in Range(PollutantList) \cup {EMPTY} : SetSelectedPollutant(p)
  \/ \E d \in StartDates : SetStartDate(d)
  \/ \E d \in EndDates : SetEndDate(d)
  \/ ResetFilters
  \/ \E i \in DOMAIN dataReqs : DataResponse(i)
  \/ \E i \in DOMAIN dataReqs : DataFailure(i)
  \/ \E i \in DOMAIN citiesReqs, ok \in BOOLEAN : CitiesResponse(i, ok)
  \/ \E which \in {"countries", "pollutants"}, ok \in BOOLEAN : MetaResponse(which, ok)

\* ------------------------------------------------------------------------
\* Dashboard (App.js): reading a /data URL back
\* ------------------------------------------------------------------------

RECURSIVE Split(_, _)
\* the pieces of s between occurrences of sep
Split(s, sep) ==
  IF \A i \in DOMAIN s : s[i] # sep THEN <<s>>
  ELSE LET k == CHOOSE i \in DOMAIN s : s[i] = sep /\ \A j \in 1..(i - 1) : s[j] # sep
       IN  <<SubSeq(s, 1, k - 1)>> \o Split(SubSeq(s, k + 1, Len(s)), sep)

\* the character an escape sequence stands for
PercentUnescape(t) ==
  CASE t = "%20" -> " "
    [] t = "%26" -> "&"
    [] t = "%3D" -> "="
    [] t = "%3F" -> "?"
    [] t = "%2F" -> "/"
    [] t = "%25" -> "%"
    [] OTHER -> t

decodeURIComponent(s) == [i \in DOMAIN s |-> PercentUnescape(s[i])]

\* the query string of a URL: what follows the first "?", or nothing
QueryString(url) ==
  IF \A i \in DOMAIN url : url[i] # "?" THEN << >>
  ELSE LET k == CHOOSE i \in DOMAIN url : url[i] = "?" /\ \A j \in 1..(i - 1) : url[j] # "?"
       IN  SubSeq(url, k + 1, Len(url))

\* the name=value pairs a server reads from a URL, in order
QueryPairs(url) ==
  LET q == QueryString(url)
      parts == IF q = << >> THEN << >> ELSE Split(q, "&")
  IN  [i \in DOMAIN parts |->
         IF parts[i] = << >> THEN <<"", << >> >>
         ELSE <<Head(parts[i]), decodeURIComponent(Tail(parts[i]))>>]

\* the non-empty criteria among the five, as name=value pairs in the order
\* country, city, pollutant, start_date, end_date
RECURSIVE NonEmptyPairs(_)
NonEmptyPairs(pairs) ==
  IF pairs = << >> THEN << >>
  ELSE (IF Head(pairs)[2] # EMPTY THEN <<Head(pairs)>> ELSE << >>) \o NonEmptyPairs(Tail(pairs))

CriteriaPairs(c) ==
  NonEmptyPairs(<< <<"country=", c.country>>, <<"city=", c.city>>,
                   <<"pollutant=", c.pollutant>>, <<"start_date=", c.start_date>>,
                   <<"end_date=", c.end_date>> >>)

\* ------------------------------------------------------------------------
\* Dashboard (App.js): the URL builder applied to arbitrary filter values
\* ------------------------------------------------------------------------

PM25 == <<"P", "M", "2", ".", "5">>
UrlCountries == {EMPTY, India, TandT}
UrlCities == {EMPTY, Delhi, PortOfSpain}
UrlPollutants == {EMPTY, NO2ppb, PM25}

InitUrl ==
  /\ urlCriteria = Criteria(EMPTY, EMPTY, EMPTY, EMPTY, EMPTY)
  /\ urlBuilt = DataUrl(EMPTY, EMPTY, EMPTY, EMPTY, EMPTY)

BuildDataUrl(country, city, pollutant, start, end) ==
  /\ urlCriteria' = Criteria(country, city, pollutant, start, end)
  /\ urlBuilt' = DataUrl(country, city, pollutant, start, end)
  /\ UNCHANGED notUrl

\* ------------------------------------------------------------------------
\* Dashboard (App.js): the Avg AQI summary card
\* ------------------------------------------------------------------------

\* Number.prototype.toFixed(1) of num/den >= 0, in tenths: the nearest tenth,
\* the larger one on a tie.  (Exact for the denominators of the model, whose
\* ties are at binary fractions.)
ToFixed1(num, den) == (20 * num + den) \div (2 * den)

\* b.AQI || 0
AQIOrZero(b) == IF b.AQI = None \/ b.AQI = Some(0) THEN 0 ELSE b.AQI[1]

RECURSIVE SumAQI(_)
\* data.reduce((a, b) => a + (b.AQI || 0), 0)
SumAQI(rows) == IF rows = << >> THEN 0 ELSE AQIOrZero(Head(rows)) + SumAQI(Tail(rows))

Present(rows) == SelectSeq(rows, LAMBDA b : b.AQI # None)

\* the mean of the AQI values that are present
AvgOfPresent(rows) ==
  IF Present(rows) = << >> THEN None
  ELSE Some(ToFixed1(SumAQI(Present(rows)), Len(Present(rows))))

\* data && data.length ? (data.reduce((a, b) => a + (b.AQI || 0), 0) / data.length).toFixed(1) : '--'
\* The card text is None for '--' or Some(t), t the number shown, in tenths.
AvgAQICard(rows) ==
  IF rows = << >> THEN None
  ELSE Some(ToFixed1(SumAQI(rows), Len(rows)))

InitCards ==
  /\ cardData = << >>
  /\ avgCard = AvgAQICard(<< >>)

\* a /data response with these rows is stored and the dashboard re-rendered
RenderCards(rows) ==
  /\ cardData' = rows
  /\ avgCard' = AvgAQICard(rows)
  /\ UNCHANGED notCards

\* ------------------------------------------------------------------------
\* NotificationProvider (App.js)
\* ------------------------------------------------------------------------

\* bound on the distinct values Date.now() + Math.random() takes in a run
MaxNotificationIds == 2
NotificationIds == 1..MaxNotificationIds

\* addNotification: the new entry first, unread (its time stamp is left out)
addNotification(prev, id, title, message) ==
  <<[id |-> id, read |-> FALSE, title |-> title, message |-> message]>> \o prev

InitNotifications == notifications = << >>

\* ------------------------------------------------------------------------
\* ComparativeAnalysisScreen: input domains
\* ------------------------------------------------------------------------

\* what GET /cities and GET /countries answer
CityOptions == <<"Delhi", "Paris">>
CountryOptions == <<"India", "France">>
OptionsOf(mode) == IF mode = "city" THEN CityOptions ELSE CountryOptions

\* numbers the user can enter in the Clusters (k) input; the empty input is 0
KInputs == {0, 2, 7}

\* bound on the user events of a run on the comparative screen
MaxCmpEvents == 4

\* ------------------------------------------------------------------------
\* ComparativeAnalysisScreen
\* ------------------------------------------------------------------------

\* useState(3)
InitialK == 3

\* state after the first render and its effect
InitCmp ==
  /\ cmpMode = "city"
  /\ cmpOptions = << >>
  /\ cmpSelected = << >>
  /\ cmpResults = None
  /\ cmpLoading = FALSE
  /\ cmpError = ""
  /\ cmpBenchmark = None
  /\ cmpK = InitialK
  /\ cmpOptionReqs = <<"city">>
  /\ cmpPosts = << >>
  /\ cmpEvents = 0

\* City / Country buttons, with the effect on [mode]
CmpSetMode(m) ==
  /\ m \in {"city", "country"}
  /\ m # cmpMode
  /\ cmpEvents < MaxCmpEvents
  /\ cmpEvents' = cmpEvents + 1
  /\ cmpMode' = m
  /\ cmpOptionReqs' = Append(cmpOptionReqs, m)
  /\ cmpSelected' = << >>
  /\ cmpResults' = None
  /\ UNCHANGED <<cmpOptions, cmpLoading, cmpError, cmpBenchmark, cmpK, cmpPosts>>
  /\ UNCHANGED <<notifVars, notCmp>>

\* an option-list request settles; nothing handles a rejection
CmpOptionsResponse(i, ok) ==
  /\ i \in DOMAIN cmpOptionReqs
  /\ cmpOptionReqs' = RemoveAt(cmpOptionReqs, i)
  /\ cmpOptions' = IF ok THEN OptionsOf(cmpOptionReqs[i]) ELSE cmpOptions
  /\ UNCHANGED <<cmpMode, cmpSelected, cmpResults, cmpLoading, cmpError, cmpBenchmark, cmpK,
                 cmpPosts, cmpEvents>>
  /\ UNCHANGED <<notifVars, notCmp>>

\* the multi-select: one more option chosen
CmpSelect(o) ==
  /\ o \in Range(cmpOptions) \ Range(cmpSelected)
  /\ cmpEvents < MaxCmpEvents
  /\ cmpEvents' = cmpEvents + 1
  /\ cmpSelected' = Append(cmpSelected, o)
  /\ UNCHANGED <<cmpMode, cmpOptions, cmpResults, cmpLoading, cmpError, cmpBenchmark, cmpK,
                 cmpOptionReqs, cmpPosts>>
  /\ UNCHANGED <<notifVars, notCmp>>

\* the multi-select: one chosen option removed
CmpDeselect(i) ==
  /\ i \in DOMAIN cmpSelected
  /\ cmpEvents < MaxCmpEvents
  /\ cmpEvents' = cmpEvents + 1
  /\ cmpSelected' = RemoveAt(cmpSelected, i)
  /\ UNCHANGED <<cmpMode, cmpOptions, cmpResults, cmpLoading, cmpError, cmpBenchmark, cmpK,
                 cmpOptionReqs, cmpPosts>>
  /\ UNCHANGED <<notifVars, notCmp>>

\* Benchmark City select, rendered in city mode: None or one of the selected
CmpSetBenchmark(b) ==
  /\ cmpMode = "city"
  /\ b \in {None} \cup {Some(cmpSelected[i]) : i \in DOMAIN cmpSelected}
  /\ b # cmpBenchmark
  /\ cmpEvents < MaxCmpEvents
  /\ cmpEvents' = cmpEvents + 1
  /\ cmpBenchmark' = b
  /\ UNCHANGED <<cmpMode, cmpOptions, cmpSelected, cmpResults, cmpLoading, cmpError, cmpK,
                 cmpOptionReqs, cmpPosts>>
  /\ UNCHANGED <<notifVars, notCmp>>

\* what ends up in k for a number entered: onChange={e => setK(Number(e.target.value))}
EnteredK(v) == v

\* Clusters (k) input, rendered in city mode
CmpSetK(v) ==
  /\ cmpMode = "city"
  /\ v \in KInputs
  /\ EnteredK(v) # cmpK
  /\ cmpEvents < MaxCmpEvents
  /\ cmpEvents' = cmpEvents + 1
  /\ cmpK' = EnteredK(v)
  /\ UNCHANGED <<cmpMode, cmpOptions, cmpSelected, cmpResults, cmpLoading, cmpError,
                 cmpBenchmark, cmpOptionReqs, cmpPosts>>
  /\ UNCHANGED <<notifVars, notCmp>>

\* the Compare button is enabled: not (selected.length < 2 || loading)
CompareEnabledAnyCount(selected, isLoading) == ~isLoading
CompareEnabled(selected, isLoading) == ~(Len(selected) < 2 \/ isLoading)

\* the body of POST /comparative-analysis
ComparativeBody(mode, selected, benchmark, k) ==
  [mode |-> mode, selections |-> selected, benchmark |-> benchmark, k |-> k]

\* what the server answers a comparative-analysis request with
ComparativeOf(body) == [resultsFor |-> body]

\* fetchComparative up to the await
CmpCompare ==
  /\ CompareEnabled(cmpSelected, cmpLoading)
  /\ cmpEvents < MaxCmpEvents
  /\ cmpEvents' = cmpEvents + 1
  /\ cmpLoading' = TRUE
  /\ cmpError' = ""
  /\ cmpResults' = None
  /\ cmpPosts' = Append(cmpPosts, ComparativeBody(cmpMode, cmpSelected, cmpBenchmark, cmpK))
  /\ UNCHANGED <<cmpMode, cmpOptions, cmpSelected, cmpBenchmark, cmpK, cmpOptionReqs>>
  /\ UNCHANGED <<notifVars, notCmp>>

\* fetchComparative after the await: the request resolved
CmpPostResponse(i, id) ==
  /\ i \in DOMAIN cmpPosts
  /\ id \in NotificationIds
  /\ cmpPosts' = RemoveAt(cmpPosts, i)
  /\ cmpResults' = Some(ComparativeOf(cmpPosts[i]))
  /\ notifications' = addNotification(notifications, id, "Comparative Analysis",
                                      "Comparative analysis data loaded successfully.")
  /\ cmpLoading' = FALSE
  /\ UNCHANGED <<cmpMode, cmpOptions, cmpSelected, cmpError, cmpBenchmark, cmpK,
                 cmpOptionReqs, cmpEvents>>
  /\ UNCHANGED notCmp

\* fetchComparative after the await: the request was rejected, with the
\* server's error message or without one
CmpPostFailure(i, id, message) ==
  /\ i \in DOMAIN cmpPosts
  /\ id \in NotificationIds
  /\ message \in {"", "Invalid selections"}
  /\ cmpPosts' = RemoveAt(cmpPosts, i)
  /\ cmpError' = IF message # "" THEN message ELSE "Failed to fetch comparative analysis"
  /\ notifications' = addNotification(notifications, id, "Comparative Analysis",
                                      "Failed to load comparative analysis data.")
  /\ cmpLoading' = FALSE
  /\ UNCHANGED <<cmpMode, cmpOptions, cmpSelected, cmpResults, cmpBenchmark, cmpK,
                 cmpOptionReqs, cmpEvents>>
  /\ UNCHANGED notCmp

NextCmp ==
  \/ \E m \in {"city", "country"} : CmpSetMode(m)
  \/ \E i \in DOMAIN cmpOptionReqs, ok \in BOOLEAN : CmpOptionsResponse(i, ok)
  \/ \E o \in Range(CityOptions) \cup Range(CountryOptions) : CmpSelect(o)
  \/ \E i \in DOMAIN cmpSelected : CmpDeselect(i)
  \/ \E b \in {None} \cup {Some(o) : o \in Range(CityOptions) \cup Range(CountryOptions)} :
       CmpSetBenchmark(b)
  \/ \E v \in KInputs : CmpSetK(v)
  \/ CmpCompare
  \/ \E i \in DOMAIN cmpPosts, id \in NotificationIds : CmpPostResponse(i, id)
  \/ \E i \in DOMAIN cmpPosts, id \in NotificationIds, message \in {"", "Invalid selections"} :
       CmpPostFailure(i, id, message)

\* ------------------------------------------------------------------------
\* ForecastingScreen: input domains
\* ------------------------------------------------------------------------

\* what GET /api/cities and GET /api/pollutants answer
FcCityList == <<"Delhi">>
FcPollutantList == <<"NO2 (ppb)", "PM2.5">>

\* positions the Reduction (%) slider (min 0, max 100, step 1) is moved to
ReductionInputs == {0, 1, 100}

\* bodies the server answers a forecast request with; dates are day numbers
ForecastBodies ==
  { [historical |-> <<[Date |-> 1, Forecast |-> 80]>>,
     forecast |-> <<[Date |-> 2, Forecast |-> 95]>>,
     anomalies |-> <<[Date |-> 2]>>,
     anomaly_threshold |-> Some(90),
     pollutant_series |-> None],
    [historical |-> << >>,
     forecast |-> << >>,
     anomalies |-> << >>,
     anomaly_threshold |-> Some(0),
     pollutant_series |-> None] }

\* bound on the user events of a run on the forecasting screen
MaxFcEvents == 5

\* ------------------------------------------------------------------------
\* ForecastingScreen
\* ------------------------------------------------------------------------

\* periods: 30
ForecastPeriods == 30
\* scenarioReduction / 100
PercentScale == 100

\* what fetchForecast resets the result state to
NoResult ==
  [forecast |-> << >>, historical |-> << >>, forecasted |-> << >>, anomalies |-> << >>,
   anomalyThreshold |-> None, pollutantSeries |-> None]

\* state after the first render and its effect
InitFc ==
  /\ fcCities = << >>
  /\ fcPollutants = << >>
  /\ fcSelectedCity = ""
  /\ fcSelectedPollutant = "AQI"
  /\ fcResult = NoResult
  /\ fcLoading = FALSE
  /\ fcError = ""
  /\ fcScenarioPollutant = "NO2 (ppb)"
  /\ fcScenarioReduction = 0
  /\ fcShowScenario = FALSE
  /\ fcListReqs = {"cities", "pollutants"}
  /\ fcReqs = << >>
  /\ fcEvents = 0

\* the mount-time requests settle: setCities(res.data),
\* setPollutants(['AQI', ...res.data]); nothing handles a rejection
FcListResponse(which, ok) ==
  /\ which \in fcListReqs
  /\ fcListReqs' = fcListReqs \ {which}
  /\ fcCities' = IF which = "cities" /\ ok THEN FcCityList ELSE fcCities
  /\ fcPollutants' = IF which = "pollutants" /\ ok THEN <<"AQI">> \o FcPollutantList
                     ELSE fcPollutants
  /\ UNCHANGED <<fcSelectedCity, fcSelectedPollutant, fcResult, fcLoading, fcError,
                 fcScenarioPollutant, fcScenarioReduction, fcShowScenario, fcReqs, fcEvents>>
  /\ UNCHANGED notFc

\* City select
FcSetCity(c) ==
  /\ c \in Range(fcCities) \cup {""}
  /\ c # fcSelectedCity
  /\ fcEvents < MaxFcEvents
  /\ fcEvents' = fcEvents + 1
  /\ fcSelectedCity' = c
  /\ UNCHANGED <<fcCities, fcPollutants, fcSelectedPollutant, fcResult, fcLoading, fcError,
                 fcScenarioPollutant, fcScenarioReduction, fcShowScenario, fcListReqs, fcReqs>>
  /\ UNCHANGED notFc

\* Pollutant select
FcSetPollutant(p) ==
  /\ p \in Range(fcPollutants)
  /\ p # fcSelectedPollutant
  /\ fcEvents < MaxFcEvents
  /\ fcEvents' = fcEvents + 1
  /\ fcSelectedPollutant' = p
  /\ UNCHANGED <<fcCities, fcPollutants, fcSelectedCity, fcResult, fcLoading, fcError,
                 fcScenarioPollutant, fcScenarioReduction, fcShowScenario, fcListReqs, fcReqs>>
  /\ UNCHANGED notFc

\* Scenario ON/OFF button
FcToggleScenario ==
  /\ fcEvents < MaxFcEvents
  /\ fcEvents' = fcEvents + 1
  /\ fcShowScenario' = ~fcShowScenario
  /\ UNCHANGED <<fcCities, fcPollutants, fcSelectedCity, fcSelectedPollutant, fcResult,
                 fcLoading, fcError, fcScenarioPollutant, fcScenarioReduction, fcListReqs,
                 fcReqs>>
  /\ UNCHANGED notFc

\* options of the Pollutant to Reduce select: pollutants.filter(p => p !== 'AQI')
ScenarioOptions(list) == SelectSeq(list, LAMBDA p : p # "AQI")

\* Pollutant to Reduce select, rendered while the scenario is on
FcSetScenarioPollutant(p) ==
  /\ fcShowScenario
  /\ p \in Range(ScenarioOptions(fcPollutants))
  /\ p # fcScenarioPollutant
  /\ fcEvents < MaxFcEvents
  /\ fcEvents' = fcEvents + 1
  /\ fcScenarioPollutant' = p
  /\ UNCHANGED <<fcCities, fcPollutants, fcSelectedCity, fcSelectedPollutant, fcResult,
                 fcLoading, fcError, fcScenarioReduction, fcShowScenario, fcListReqs, fcReqs>>
  /\ UNCHANGED notFc

\* Reduction (%) slider, rendered while the scenario is on
FcSetReduction(v) ==
  /\ fcShowScenario
  /\ v \in ReductionInputs
  /\ v # fcScenarioReduction
  /\ fcEvents < MaxFcEvents
  /\ fcEvents' = fcEvents + 1
  /\ fcScenarioReduction' = v
  /\ UNCHANGED <<fcCities, fcPollutants, fcSelectedCity, fcSelectedPollutant, fcResult,
                 fcLoading, fcError, fcScenarioPollutant, fcShowScenario, fcListReqs, fcReqs>>
  /\ UNCHANGED notFc

\* the Run Forecast button is enabled: not (!selectedCity || !selectedPollutant || loading)
RunEnabledWhileLoading(city, pollutant, isLoading) == ~(city = "" \/ pollutant = "")
RunEnabled(city, pollutant, isLoading) == ~(city = "" \/ pollutant = "" \/ isLoading)

\* showScenario && scenarioReduction > 0
IsScenarioRunWhenOn(show, reduction) == show
IsScenarioRun(show, reduction) == show /\ reduction > 0

\* { [scenarioPollutant]: scenarioReduction / 100 }, the value as a fraction
EmissionReductionPercent(pollutant, reduction) ==
  [p \in {pollutant} |-> [num |-> reduction, den |-> 1]]
EmissionReduction(pollutant, reduction) ==
  [p \in {pollutant} |-> [num |-> reduction, den |-> PercentScale]]

\* the request fetchForecast sends
ForecastRequest(city, pollutant, show, scenarioPollutant, reduction) ==
  IF IsScenarioRun(show, reduction)
  THEN [method |-> "POST", url |-> "/api/forecast",
        payload |-> [city |-> city, pollutant |-> pollutant, periods |-> ForecastPeriods,
                     emission_reduction |-> EmissionReduction(scenarioPollutant, reduction)]]
  ELSE [method |-> "GET", url |-> "/api/forecast",
        payload |-> [city |-> city, pollutant |-> pollutant, periods |-> ForecastPeriods]]

\* fetchForecast up to the await
FcRunKeepingResult ==
  /\ RunEnabled(fcSelectedCity, fcSelectedPollutant, fcLoading)
  /\ fcEvents < MaxFcEvents
  /\ fcEvents' = fcEvents + 1
  /\ fcLoading' = TRUE
  /\ fcError' = ""
  /\ fcReqs' = Append(fcReqs, ForecastRequest(fcSelectedCity, fcSelectedPollutant,
                                               fcShowScenario, fcScenarioPollutant,
                                               fcScenarioReduction))
  /\ UNCHANGED <<fcCities, fcPollutants, fcSelectedCity, fcSelectedPollutant, fcResult,
                 fcScenarioPollutant, fcScenarioReduction, fcShowScenario, fcListReqs>>
  /\ UNCHANGED notFc
FcRun ==
  /\ RunEnabled(fcSelectedCity, fcSelectedPollutant, fcLoading)
  /\ fcEvents < MaxFcEvents
  /\ fcEvents' = fcEvents + 1
  /\ fcLoading' = TRUE
  /\ fcError' = ""
  /\ fcResult' = NoResult
  /\ fcReqs' = Append(fcReqs, ForecastRequest(fcSelectedCity, fcSelectedPollutant,
                                               fcShowScenario, fcScenarioPollutant,
                                               fcScenarioReduction))
  /\ UNCHANGED <<fcCities, fcPollutants, fcSelectedCity, fcSelectedPollutant,
                 fcScenarioPollutant, fcScenarioReduction, fcShowScenario, fcListReqs>>
  /\ UNCHANGED notFc

\* data.anomaly_threshold || null
OrNull(v) == IF v = Some(0) THEN None ELSE v

\* fetchForecast after the await: the request resolved
FcResponse(i, body) ==
  /\ i \in DOMAIN fcReqs
  /\ body \in ForecastBodies
  /\ fcReqs' = RemoveAt(fcReqs, i)
  /\ fcResult' = [forecast |-> body.historical \o body.forecast,
                  historical |-> body.historical,
                  forecasted |-> body.forecast,
                  anomalies |-> body.anomalies,
                  anomalyThreshold |-> OrNull(body.anomaly_threshold),
                  pollutantSeries |-> body.pollutant_series]
  /\ fcLoading' = FALSE
  /\ UNCHANGED <<fcCities, fcPollutants, fcSelectedCity, fcSelectedPollutant, fcError,
                 fcScenarioPollutant, fcScenarioReduction, fcShowScenario, fcListReqs,
                 fcEvents>>
  /\ UNCHANGED notFc

\* fetchForecast after the await: the request was rejected, with the server's
\* error message or without one
FcFailure(i, message) ==
  /\ i \in DOMAIN fcReqs
  /\ message \in {"", "Unknown city"}
  /\ fcReqs' = RemoveAt(fcReqs, i)
  /\ fcError' = IF message # "" THEN message ELSE "Failed to fetch forecast"
  /\ fcLoading' = FALSE
  /\ UNCHANGED <<fcCities, fcPollutants, fcSelectedCity, fcSelectedPollutant, fcResult,
                 fcScenarioPollutant, fcScenarioReduction, fcShowScenario, fcListReqs,
                 fcEvents>>
  /\ UNCHANGED notFc

NextFc ==
  \/ \E which \in {"cities", "pollutants"}, ok \in BOOLEAN : FcListResponse(which, ok)
  \/ \E c \in Range(FcCityList) \cup {""} : FcSetCity(c)
  \/ \E p \in Range(FcPollutantList) \cup {"AQI"} : FcSetPollutant(p)
  \/ FcToggleScenario
  \/ \E p \in Range(FcPollutantList) \cup {"AQI"} : FcSetScenarioPollutant(p)
  \/ \E v \in ReductionInputs : FcSetReduction(v)
  \/ FcRun
  \/ \E i \in DOMAIN fcReqs, body \in ForecastBodies : FcResponse(i, body)
  \/ \E i \in DOMAIN fcReqs, message \in {"", "Unknown city"} : FcFailure(i, message)

\* ------------------------------------------------------------------------
\* CorrelationAnalysisScreen: input domains
\* ------------------------------------------------------------------------

\* the coefficients of a response
CoefNames ==
  { "AQI_Temperature.pearson", "AQI_Temperature.spearman",
    "AQI_Temperature.slope", "AQI_Temperature.r2",
    "PM2.5_Humidity.pearson", "PM2.5_Humidity.spearman",
    "PM2.5_Humidity.slope", "PM2.5_Humidity.r2",
    "NO2.pearson", "NO2.spearman", "NO2.slope", "NO2.r2",
    "Temperature.lag1", "Temperature.lag2", "Temperature.partial" }

\* bound on the null coefficients of a response
MaxNulls == 2

\* a coefficient is null, or a number in ten-thousandths
CoefValue(name, nulls) == IF name \in nulls THEN None ELSE Some(4567)

\* { pearson, spearman, scatter: { slope, r2 } } of one pair of variables
PairStats(name, nulls) ==
  [pearson |-> CoefValue(name \o ".pearson", nulls),
   spearman |-> CoefValue(name \o ".spearman", nulls),
   scatter |-> [slope |-> CoefValue(name \o ".slope", nulls),
                r2 |-> CoefValue(name \o ".r2", nulls)]]

\* bodies GET /api/correlation-analysis answers with, one for each set of
\* null coefficients; keyed collections are sequences of entries in key order
CorrelationBodies ==
  { [AQI_Temperature |-> PairStats("AQI_Temperature", nulls),
     PM25_Humidity |-> PairStats("PM2.5_Humidity", nulls),
     WindSpeed_Pollutants |-> <<[pollutant |-> "NO2", vals |-> PairStats("NO2", nulls)]>>,
     time_lag_correlations |->
       <<[variable |-> "Temperature",
          lags |-> <<CoefValue("Temperature.lag1", nulls),
                     CoefValue("Temperature.lag2", nulls)>>]>>,
     partial_correlations |->
       <<[variable |-> "Temperature", val |-> CoefValue("Temperature.partial", nulls)]>>] :
    nulls \in {s \in SUBSET CoefNames : Cardinality(s) <= MaxNulls} }

\* ------------------------------------------------------------------------
\* CorrelationAnalysisScreen
\* ------------------------------------------------------------------------

\* state after the first render and its effect
InitCorr ==
  /\ correlations = None
  /\ corrLoading = TRUE
  /\ corrError = ""
  /\ corrFetching = TRUE

\* the fetch resolved with a JSON body
CorrelationResponse(body, id) ==
  /\ corrFetching
  /\ corrFetching' = FALSE
  /\ correlations' = Some(body)
  /\ corrLoading' = FALSE
  /\ notifications' = addNotification(notifications, id, "Correlation Analysis",
                                      "Correlation analysis data loaded successfully.")
  /\ UNCHANGED corrError
  /\ UNCHANGED notCorr

\* the fetch was rejected, or its body was not JSON
CorrelationFailure(id) ==
  /\ corrFetching
  /\ corrFetching' = FALSE
  /\ corrError' = "Failed to fetch correlation analysis."
  /\ corrLoading' = FALSE
  /\ notifications' = addNotification(notifications, id, "Correlation Analysis",
                                      "Failed to load correlation analysis data.")
  /\ UNCHANGED correlations
  /\ UNCHANGED notCorr

\* Number.prototype.toFixed(3) of v ten-thousandths, in thousandths
ToFixed3(v) == IF v >= 0 THEN (v + 5) \div 10 ELSE -((5 - v) \div 10)

\* what an expression of the render yields for one coefficient
Shown(v) == [kind |-> "text", thousandths |-> ToFixed3(v)]
NotAvailable == [kind |-> "N/A", thousandths |-> 0]
Omitted == [kind |-> "omitted", thousandths |-> 0]
TypeError == [kind |-> "TypeError", thousandths |-> 0]

\* {c.toFixed(3)}
MethodCall(c) == IF c = None THEN TypeError ELSE Shown(c[1])
\* {c?.toFixed(3) ?? 'N/A'} and {c !== null ? c.toFixed(3) : 'N/A'}
GuardedCall(c) == IF c # None THEN Shown(c[1]) ELSE NotAvailable
\* slope !== null && { ...regression line dataset }, then .filter(Boolean)
RegressionLine(c) == IF c # None THEN Shown(c[1]) ELSE Omitted

Cell(name, c, out) == [name |-> name, coef |-> c, out |-> out]

\* the two key-correlation lines of one pair
KeyCells(name, s) ==
  << Cell(name \o ".pearson", s.pearson, MethodCall(s.pearson)),
     Cell(name \o ".spearman", s.spearman, MethodCall(s.spearman)) >>

\* the scatter plot of one pair: regression line and R2 caption
ScatterCells(name, s) ==
  << Cell(name \o ".scatter.slope", s.scatter.slope, RegressionLine(s.scatter.slope)),
     Cell(name \o ".scatter.r2", s.scatter.r2, GuardedCall(s.scatter.r2)) >>

RECURSIVE Concat(_)
Concat(ss) == IF ss = << >> THEN << >> ELSE Head(ss) \o Concat(Tail(ss))

\* every coefficient the tables render, in render order
RenderCells(c) ==
  KeyCells("AQI_Temperature", c.AQI_Temperature)
  \o KeyCells("PM2.5_Humidity", c.PM25_Humidity)
  \o Concat([i \in DOMAIN c.WindSpeed_Pollutants |->
               KeyCells(c.WindSpeed_Pollutants[i].pollutant, c.WindSpeed_Pollutants[i].vals)])
  \o ScatterCells("AQI_Temperature", c.AQI_Temperature)
  \o ScatterCells("PM2.5_Humidity", c.PM25_Humidity)
  \o Concat([i \in DOMAIN c.WindSpeed_Pollutants |->
               ScatterCells(c.WindSpeed_Pollutants[i].pollutant,
                            c.WindSpeed_Pollutants[i].vals)])
  \o Concat([i \in DOMAIN c.time_lag_correlations |->
               [j \in DOMAIN c.time_lag_correlations[i].lags |->
                  Cell(c.time_lag_correlations[i].variable,
                       c.time_lag_correlations[i].lags[j],
                       GuardedCall(c.time_lag_correlations[i].lags[j]))]])
  \o [i \in DOMAIN c.partial_correlations |->
        Cell(c.partial_correlations[i].variable, c.partial_correlations[i].val,
             GuardedCall(c.partial_correlations[i].val))]

\* what the component renders: an exception thrown while rendering leaves
\* nothing of the screen
CorrelationScreen(isLoading, error, c) ==
  IF isLoading THEN [screen |-> "loading", cells |-> << >>]
  ELSE IF error # "" THEN [screen |-> "error", cells |-> << >>]
  ELSE IF c = None THEN [screen |-> "empty", cells |-> << >>]
  ELSE IF \E i \in DOMAIN RenderCells(c[1]) : RenderCells(c[1])[i].out = TypeError
       THEN [screen |-> "TypeError", cells |-> << >>]
       ELSE [screen |-> "tables", cells |-> RenderCells(c[1])]

NextCorr ==
  \/ \E body \in CorrelationBodies, id \in NotificationIds : CorrelationResponse(body, id)
  \/ \E id \in NotificationIds : CorrelationFailure(id)

\* ------------------------------------------------------------------------
\* sampleAndJitter (CorrelationAnalysisScreen.js)
\* ------------------------------------------------------------------------

\* bound on the length of the arrays passed in
MaxLen == 3
\* bound on the explicit maxPoints passed in
MaxCap == 2
\* maxPoints = 500
DefaultMaxPoints == 500

\* coordinates are kept in quarters: jitter = 0.5 and Math.random() in
\* {0, 1/2} make (Math.random() - 0.5) * jitter one of -1/4 and 0
Quarter == 4
RandomDraws == {0, 1}
Jitter(r) == r - 1

XValues == {0, 1}
\* the y array accompanying an x array of length n
YOf(n) == [i \in 1..n |-> 10 * i]

\* idxs after the optional sort(() => 0.5 - Math.random()).slice(0, maxPoints):
\* the comparator is inconsistent, so the order sort leaves is any
\* permutation perm of the indexes
SampleIdxsRepeated(n, maxPoints, perm) ==
  IF n > maxPoints
  THEN [i \in 1..maxPoints |-> perm[1]]
  ELSE [i \in 1..n |-> i]
SampleIdxs(n, maxPoints, perm) ==
  IF n > maxPoints
  THEN [i \in 1..maxPoints |-> perm[i]]
  ELSE [i \in 1..n |-> i]

\* idxs.map(i => ({ x: xArr[i] + jitter, y: yArr[i] + jitter }))
sampleAndJitter(xArr, yArr, maxPoints, perm, rx, ry) ==
  LET idxs == SampleIdxs(Len(xArr), maxPoints, perm)
  IN [p \in DOMAIN idxs |->
        [x |-> Quarter * xArr[idxs[p]] + Jitter(rx[p]),
         y |-> Quarter * yArr[idxs[p]] + Jitter(ry[p])]]

InitSj ==
  /\ sjX = << >>
  /\ sjY = << >>
  /\ sjMaxPoints = DefaultMaxPoints
  /\ sjPoints = << >>
  /\ sjCalled = FALSE

Min(a, b) == IF a <= b THEN a ELSE b

\* one call of sampleAndJitter: the arguments are arbitrary, the order the
\* sort leaves and the values Math.random() returns are the engine's
CallSampleAndJitter ==
  /\ ~sjCalled
  /\ \E n \in 0..MaxLen, maxPoints \in (0..MaxCap) \cup {DefaultMaxPoints} :
       \E xArr \in [1..n -> XValues], perm \in Permutations(1..n) :
         \E rx \in [1..Min(n, maxPoints) -> RandomDraws],
            ry \in [1..Min(n, maxPoints) -> RandomDraws] :
           /\ sjX' = xArr
           /\ sjY' = YOf(n)
           /\ sjMaxPoints' = maxPoints
           /\ sjPoints' = sampleAndJitter(xArr, YOf(n), maxPoints, perm, rx, ry)
  /\ sjCalled' = TRUE
  /\ UNCHANGED notSj

NextSj == CallSampleAndJitter

\* ------------------------------------------------------------------------
\* MapSection: getAQIColor
\* ------------------------------------------------------------------------

\* bound on the AQI values rendered
MaxAQI == 520

AQI_COLORS ==
  << [max |-> 50, color |-> "#43a047", label |-> "Good"],
     [max |-> 100, color |-> "#fbc02d", label |-> "Moderate"],
     [max |-> 150, color |-> "#fb8c00", label |-> "Unhealthy for Sensitive"],
     [max |-> 200, color |-> "#e53935", label |-> "Unhealthy"],
     [max |-> 300, color |-> "#8e24aa", label |-> "Very Unhealthy"],
     [max |-> 500, color |-> "#6d4c41", label |-> "Hazardous"] >>

\* for (const range of AQI_COLORS) if (aqi <= range.max) return range.color
RECURSIVE FirstRangeBelow(_, _)
FirstRangeBelow(aqi, i) ==
  IF i > Len(AQI_COLORS) THEN "#6d4c41"
  ELSE IF aqi < AQI_COLORS[i].max THEN AQI_COLORS[i].color
  ELSE FirstRangeBelow(aqi, i + 1)
RECURSIVE FirstRange(_, _)
FirstRange(aqi, i) ==
  IF i > Len(AQI_COLORS) THEN "#6d4c41"
  ELSE IF aqi <= AQI_COLORS[i].max THEN AQI_COLORS[i].color
  ELSE FirstRange(aqi, i + 1)

getAQIColor(aqi) == IF aqi = None THEN "#bdbdbd" ELSE FirstRange(aqi[1], 1)

InitMap ==
  /\ markerAqi = None
  /\ markerColor = getAQIColor(None)

\* a marker is rendered for a city whose AQI is aqi
RenderMarker(aqi) ==
  /\ markerAqi' = aqi
  /\ markerColor' = getAQIColor(aqi)
  /\ UNCHANGED notMap

NextMap == \E aqi \in {None} \cup {Some(n) : n \in 0..MaxAQI} : RenderMarker(aqi)

\* ------------------------------------------------------------------------
\* CorrelationAnalysisScreen: scatterplot with regression line
\* ------------------------------------------------------------------------

\* bound on the length of the scatter arrays of a response
MaxScatterLen == 2
\* the cap sampleAndJitter is called with is its default; the cap of 1 puts
\* the arrays of the model above the cap, as arrays of more than 500 are
ScatterCaps == {DefaultMaxPoints, 1}

\* scatter objects of a response: x and y of the same non-zero length
Scatters ==
  UNION { [x : [1..n -> XValues], y : {YOf(n)}, slope : {None, Some(0), Some(2)},
           intercept : {None, Some(3)}, r2 : {None, Some(4567)}] : n \in 1..MaxScatterLen }

InitSc ==
  /\ scScatter = None
  /\ scRender = None

\* setCorrelations(data), for the scatter of one pair
ScatterLoaded(scatter) ==
  /\ scScatter = None
  /\ scScatter' = Some(scatter)
  /\ UNCHANGED scRender
  /\ UNCHANGED notSc

\* Math.min(...xs) and Math.max(...xs) of a non-empty array
MinOf(xs) == CHOOSE v \in Range(xs) : \A w \in Range(xs) : v <= w
MaxOf(xs) == CHOOSE v \in Range(xs) : \A w \in Range(xs) : v >= w

\* a null operand of + is 0
NumberOf(c) == IF c = None THEN 0 ELSE c[1]

\* the datasets of the Scatter chart and the R2 caption under it; the
\* regression endpoints are in the units of the response, the points in quarters
ScatterDatasetsOfSample(scatter, points) ==
  [points |-> points,
   line |-> IF scatter.slope # None /\ points # << >>
            THEN Some(<<[x |-> MinOf([p \in DOMAIN points |-> points[p].x]),
                         y |-> scatter.slope[1] * MinOf([p \in DOMAIN points |-> points[p].x])
                               + NumberOf(scatter.intercept)],
                        [x |-> MaxOf([p \in DOMAIN points |-> points[p].x]),
                         y |-> scatter.slope[1] * MaxOf([p \in DOMAIN points |-> points[p].x])
                               + NumberOf(scatter.intercept)]>>)
            ELSE None,
   r2 |-> GuardedCall(scatter.r2)]
ScatterDatasets(scatter, points) ==
  [points |-> points,
   line |-> IF scatter.slope # None
            THEN Some(<<[x |-> MinOf(scatter.x),
                         y |-> scatter.slope[1] * MinOf(scatter.x)
                               + NumberOf(scatter.intercept)],
                        [x |-> MaxOf(scatter.x),
                         y |-> scatter.slope[1] * MaxOf(scatter.x)
                               + NumberOf(scatter.intercept)]>>)
            ELSE None,
   r2 |-> GuardedCall(scatter.r2)]

\* one render of the plot, the first or a later one: sampleAndJitter draws
\* its sample and its jitter anew
RenderScatter ==
  /\ scScatter # None
  /\ \E maxPoints \in ScatterCaps, perm \in Permutations(DOMAIN scScatter[1].x) :
       \E rx \in [1..Min(Len(scScatter[1].x), maxPoints) -> RandomDraws],
          ry \in [1..Min(Len(scScatter[1].x), maxPoints) -> RandomDraws] :
         scRender' =
           Some(ScatterDatasets(scScatter[1],
                                sampleAndJitter(scScatter[1].x, scScatter[1].y,
                                                maxPoints, perm, rx, ry)))
  /\ UNCHANGED scScatter
  /\ UNCHANGED notSc

NextSc ==
  \/ \E scatter \in Scatters : ScatterLoaded(scatter)
  \/ RenderScatter

\* ------------------------------------------------------------------------
\* PollutantCompositionScreen: dominant pollutant
\* ------------------------------------------------------------------------

\* bound on the pollutants of a city
MaxPollutants == 3

\* the keys of a city's mapping, in response order
PollutantKeys == <<"PM2.5", "PM10", "NO2", "SO2", "CO", "O3">>
PctValues == {0, 10, 30, 50, 70}

\* data[selectedCity] of a response: at least one pollutant
CityDatas ==
  UNION { { [i \in 1..n |-> [pollutant |-> PollutantKeys[i], percentage_contribution |-> pct[i]]] :
            pct \in [1..n -> PctValues] } : n \in 1..MaxPollutants }

\* Math.max(...xs) of a non-empty array of numbers
RECURSIVE MathMax(_)
MathMax(xs) ==
  IF Len(xs) = 1 THEN xs[1]
  ELSE IF xs[1] >= MathMax(Tail(xs)) THEN xs[1] ELSE MathMax(Tail(xs))

\* xs.indexOf(v), counted from 1; 0 when v is not in xs
LastIndexOf(xs, v) ==
  IF \E i \in DOMAIN xs : xs[i] = v
  THEN CHOOSE i \in DOMAIN xs : xs[i] = v /\ \A j \in DOMAIN xs : xs[j] = v => j <= i
  ELSE 0
IndexOf(xs, v) ==
  IF \E i \in DOMAIN xs : xs[i] = v
  THEN CHOOSE i \in DOMAIN xs : xs[i] = v /\ \A j \in DOMAIN xs : xs[j] = v => i <= j
  ELSE 0

\* pctData, dominantIdx, dominantPollutant and dominantPct of a render
DominantOf(cityData) ==
  LET pctData == [i \in DOMAIN cityData |-> cityData[i].percentage_contribution]
      dominantIdx == IndexOf(pctData, MathMax(pctData))
  IN [idx |-> dominantIdx,
      pollutant |-> cityData[dominantIdx].pollutant,
      pct |-> pctData[dominantIdx]]

\* before the response no city is selected and no summary is rendered
InitPc ==
  /\ pcCityData = << >>
  /\ pcDominant = None

\* the screen renders the summary of a city
RenderComposition(cityData) ==
  /\ pcCityData' = cityData
  /\ pcDominant' = Some(DominantOf(cityData))
  /\ UNCHANGED notPc

NextPc == \E cityData \in CityDatas : RenderComposition(cityData)

\* ------------------------------------------------------------------------
\* TemporalPatternsScreen: load, failure and Retry
\* ------------------------------------------------------------------------

\* bound on the page reloads of a run
MaxReloads == 2

\* what GET /api/temporal-patterns answers
TemporalBodies == {[cities |-> << >>], [cities |-> <<"Delhi">>]}

\* the screen after its first render and its effect
TpMounted ==
  /\ tpData = None
  /\ tpLoading = TRUE
  /\ tpError = ""
  /\ tpFetching = TRUE

InitTp ==
  /\ TpMounted
  /\ tpReloads = 0

\* the fetch resolved with a JSON body
TpResponse(body, id) ==
  /\ tpFetching
  /\ tpFetching' = FALSE
  /\ tpData' = Some(body)
  /\ tpLoading' = FALSE
  /\ notifications' = addNotification(notifications, id, "Temporal Patterns",
                                      "Temporal patterns data loaded successfully.")
  /\ UNCHANGED <<tpError, tpReloads>>
  /\ UNCHANGED notTp

\* the fetch was rejected, or its body was not JSON: the request is over
TpFailureRefetching(id) ==
  /\ tpFetching
  /\ tpFetching' = TRUE
  /\ tpError' = "Failed to fetch temporal patterns data."
  /\ tpLoading' = FALSE
  /\ notifications' = addNotification(notifications, id, "Temporal Patterns",
                                      "Failed to load temporal patterns data.")
  /\ UNCHANGED <<tpData, tpReloads>>
  /\ UNCHANGED notTp
TpFailure(id) ==
  /\ tpFetching
  /\ tpFetching' = FALSE
  /\ tpError' = "Failed to fetch temporal patterns data."
  /\ tpLoading' = FALSE
  /\ notifications' = addNotification(notifications, id, "Temporal Patterns",
                                      "Failed to load temporal patterns data.")
  /\ UNCHANGED <<tpData, tpReloads>>
  /\ UNCHANGED notTp

\* ------------------------------------------------------------------------
\* Trend Analyzer (behind GET /api/city-aqi-trends)
\* ------------------------------------------------------------------------

\* bound on the length of a series of arbitrary AQI values
MaxShortSeries == 3
\* bound on the length of a series of low and high AQI values
MaxLongSeries == 12

ShortValues == {80, 85, 90, 95, 300}
LongValues == {80, 300}
ExampleSeries == <<80, 85, 90, 95, 300, 88, 82>>

\* the AQI of a city's aggregate points, one period after the other
CitySeries ==
  UNION { [1..n -> ShortValues] : n \in 0..MaxShortSeries }
  \cup UNION { [1..n -> LongValues] : n \in 1..MaxLongSeries }
  \cup {ExampleSeries}

\* the aggregate points {Year, Month, AQI} of a series, in chronological order
FirstYear == 2023
MonthsPerYear == 12
MonthlyOf(series) ==
  [i \in DOMAIN series |->
     [Year |-> FirstYear + ((i - 1) \div MonthsPerYear),
      Month |-> ((i - 1) % MonthsPerYear) + 1,
      AQI |-> series[i]]]

\* ten times the 90th percentile of a non-empty series, interpolated
\* linearly between the two nearest ranks
Percentile90x10(series) ==
  LET sorted == SortSeq(series, <)
      k == 9 * (Len(series) - 1)
      lo == (k \div 10) + 1
      f == k % 10
  IN IF f = 0 THEN 10 * sorted[lo]
     ELSE 10 * sorted[lo] + f * (sorted[lo + 1] - sorted[lo])

\* a point is a spike when its AQI exceeds the 90th percentile
IsSpike(aqi, series) == 10 * aqi > Percentile90x10(series)

\* the spike list: the spikes among the aggregate points, chronologically
SpikesOf(series) ==
  SelectSeq(MonthlyOf(series), LAMBDA m : IsSpike(m.AQI, series))

RECURSIVE SumOf(_)
SumOf(xs) == IF xs = << >> THEN 0 ELSE Head(xs) + SumOf(Tail(xs))

\* the least-squares slope of a series over 1, 2, ..., as a fraction with a
\* positive denominator
SlopeNum(series) ==
  Len(series) * SumOf([i \in DOMAIN series |-> i * series[i]])
  - SumOf([i \in DOMAIN series |-> i]) * SumOf(series)
SlopeDen(series) ==
  Len(series) * SumOf([i \in DOMAIN series |-> i * i])
  - SumOf([i \in DOMAIN series |-> i]) * SumOf([i \in DOMAIN series |-> i])

\* the least number of months a trend is fitted to
MinTrendMonths == 3
\* epsilon: slopes within 1/100 AQI per month of zero count as flat
EpsilonNum == 1
EpsilonDen == 100

TrendOf(series) ==
  IF Len(series) < MinTrendMonths THEN "insufficient data"
  ELSE IF SlopeNum(series) * EpsilonDen < -(EpsilonNum * SlopeDen(series)) THEN "improving"
  ELSE IF SlopeNum(series) * EpsilonDen > EpsilonNum * SlopeDen(series) THEN "deteriorating"
  ELSE "stable"

\* the City Aggregate of a city whose aggregate points have these AQI values
CityAggregate(series) ==
  [monthly_avg_aqi |-> MonthlyOf(series),
   spikes |-> SpikesOf(series),
   trend |-> TrendOf(series)]

\* ------------------------------------------------------------------------
\* CityTrendsScreen
\* ------------------------------------------------------------------------

TREND_COLORS ==
  [improving |-> "bg-green-100 text-green-800",
   deteriorating |-> "bg-red-100 text-red-800",
   stable |-> "bg-yellow-100 text-yellow-800",
   insufficient_data |-> "bg-gray-200 text-gray-600"]
TREND_ICONS ==
  [improving |-> "ArrowTrendingDownIcon",
   deteriorating |-> "ArrowTrendingUpIcon",
   stable |-> "MinusIcon",
   insufficient_data |-> "InformationCircleIcon"]

\* the property name a trend label is looked up with
KeyOf(trend) == IF trend = "insufficient data" THEN "insufficient_data" ELSE trend

\* String(s.Month).padStart(2, '0')
PadStart2(n) == IF n < 10 THEN "0" \o ToString(n) ELSE ToString(n)

\* spikes.map((s, i) => <tr>...</tr>): Year, padded Month, AQI.toFixed(1) in tenths
SpikeRowsReversed(spikes) ==
  [i \in DOMAIN spikes |->
     [Year |-> spikes[Len(spikes) + 1 - i].Year,
      Month |-> PadStart2(spikes[Len(spikes) + 1 - i].Month),
      AQI |-> 10 * spikes[Len(spikes) + 1 - i].AQI]]
SpikeRows(spikes) ==
  [i \in DOMAIN spikes |->
     [Year |-> spikes[i].Year, Month |-> PadStart2(spikes[i].Month), AQI |-> 10 * spikes[i].AQI]]

\* the badge: TREND_COLORS[trend] || 'bg-gray-200 text-gray-600',
\* TREND_ICONS[trend], and the label itself
TrendBadgeByDirection(trend) ==
  [class |-> IF KeyOf(trend) \in DOMAIN TREND_COLORS THEN TREND_COLORS[KeyOf(trend)]
             ELSE "bg-gray-200 text-gray-600",
   icon |-> IF KeyOf(trend) \in DOMAIN TREND_ICONS THEN Some(TREND_ICONS[KeyOf(trend)])
            ELSE None,
   label |-> IF trend = "improving" THEN "deteriorating"
             ELSE IF trend = "deteriorating" THEN "improving" ELSE trend]
TrendBadge(trend) ==
  [class |-> IF KeyOf(trend) \in DOMAIN TREND_COLORS THEN TREND_COLORS[KeyOf(trend)]
             ELSE "bg-gray-200 text-gray-600",
   icon |-> IF KeyOf(trend) \in DOMAIN TREND_ICONS THEN Some(TREND_ICONS[KeyOf(trend)])
            ELSE None,
   label |-> trend]

\* the screen after its first render and its effect
InitCt ==
  /\ ctCityData = None
  /\ ctLoading = TRUE
  /\ ctError = ""
  /\ ctFetching = TRUE
  /\ ctRows = << >>
  /\ ctBadge = None

\* the fetch resolved; the first city of the response is selected and rendered
CtResponse(series) ==
  /\ ctFetching
  /\ ctFetching' = FALSE
  /\ ctCityData' = Some(CityAggregate(series))
  /\ ctLoading' = FALSE
  /\ ctRows' = SpikeRows(CityAggregate(series).spikes)
  /\ ctBadge' = Some(TrendBadge(CityAggregate(series).trend))
  /\ UNCHANGED ctError
  /\ UNCHANGED notCt

\* the fetch was rejected, or its body was not JSON
CtFailure ==
  /\ ctFetching
  /\ ctFetching' = FALSE
  /\ ctError' = "Failed to fetch city AQI trends."
  /\ ctLoading' = FALSE
  /\ UNCHANGED <<ctCityData, ctRows, ctBadge>>
  /\ UNCHANGED notCt

NextCt ==
  \/ \E series \in CitySeries : CtResponse(series)
  \/ CtFailure

\* ------------------------------------------------------------------------
\* Dataset Store
\* ------------------------------------------------------------------------

\* bound on the number of dates of the observation table
MaxDates == 1

DsCities == {"Paris", "Lyon"}
DsCountries == {"France", "USA"}

\* the rows the observation table can hold; a city name can occur in more
\* than one country
Observations ==
  [City : DsCities, Country : DsCountries, Date : 1..MaxDates]

\* criteria: each of them optional
Criterias == [city : {None} \cup {Some(c) : c \in DsCities},
              country : {None} \cup {Some(k) : k \in DsCountries}]

\* filter(criteria): the observations that meet every criterion given
Filter(store, criteria) ==
  {o \in store :
     /\ criteria.city # None => o.City = criteria.city[1]
     /\ criteria.country # None => o.Country = criteria.country[1]}

\* distinctCities(country)
distinctCities(store, country) == {o.City : o \in Filter(store, [city |-> None, country |-> Some(country)])}

InitDs ==
  /\ dsStore = None
  /\ dsFirst = None
  /\ dsLast = None

\* load(): at process start or on first access
DsLoad(table) ==
  /\ dsStore = None
  /\ dsStore' = Some(table)
  /\ UNCHANGED <<dsFirst, dsLast>>
  /\ UNCHANGED notDs

\* a request filters the loaded table; the table is left as it is
DsFilterInPlace(criteria) ==
  /\ dsStore # None
  /\ dsLast' = Some([criteria |-> criteria, result |-> Filter(dsStore[1], criteria)])
  /\ dsFirst' = IF dsFirst = None THEN dsLast' ELSE dsFirst
  /\ dsStore' = Some(Filter(dsStore[1], criteria))
  /\ UNCHANGED notDs
DsFilter(criteria) ==
  /\ dsStore # None
  /\ dsLast' = Some([criteria |-> criteria, result |-> Filter(dsStore[1], criteria)])
  /\ dsFirst' = IF dsFirst = None THEN dsLast' ELSE dsFirst
  /\ UNCHANGED dsStore
  /\ UNCHANGED notDs

NextDs ==
  \/ \E table \in SUBSET Observations : DsLoad(table)
  \/ \E criteria \in Criterias : DsFilter(criteria)

\* ------------------------------------------------------------------------
\* NotificationProvider, NotificationDropdown and the bell of HeaderActions
\* ------------------------------------------------------------------------

\* bound on the length of the notification list in the header's runs
MaxNotifications == 3

\* removeNotification: prev.filter(n => n.id !== id)
removeNotificationFirst(prev, id) ==
  IF \E i \in DOMAIN prev : prev[i].id = id
  THEN LET first == CHOOSE i \in DOMAIN prev :
                      prev[i].id = id /\ \A j \in 1..(i - 1) : prev[j].id # id
       IN SubSeq(prev, 1, first - 1) \o SubSeq(prev, first + 1, Len(prev))
  ELSE prev
removeNotification(prev, id) == SelectSeq(prev, LAMBDA n : n.id # id)

\* markAllAsRead: prev.map(n => ({ ...n, read: true }))
markAllAsRead(prev) == [i \in DOMAIN prev |-> [prev[i] EXCEPT !.read = TRUE]]

\* unreadCount: notifications.filter(n => !n.read).length
unreadCount(ns) == Len(SelectSeq(ns, LAMBDA n : ~n.read))

\* the badge on the bell: the count when it is above 0, nothing otherwise
Badge(ns) == IF unreadCount(ns) > 0 THEN Some(unreadCount(ns)) ELSE None

\* the record of a provider call
Called(name, id) ==
  Some([name |-> name, id |-> id, tick |-> IF ntOp = None THEN TRUE ELSE ~ntOp[1].tick])

InitNt ==
  /\ notifOpen = FALSE
  /\ ntOp = None

\* a fetch of some screen completes and calls addNotification
NtArrive(id) ==
  /\ Len(notifications) < MaxNotifications
  /\ notifications' = addNotification(notifications, id, "Temporal Patterns",
                                      "Temporal patterns data loaded successfully.")
  /\ ntOp' = Called("addNotification", id)
  /\ UNCHANGED notifOpen
  /\ UNCHANGED notNt

\* the bell: setNotifOpen(o => !o); when the dropdown mounts, its effect
\* calls markAllAsRead
NtBell ==
  /\ notifOpen' = ~notifOpen
  /\ IF ~notifOpen
     THEN /\ notifications' = markAllAsRead(notifications)
          /\ ntOp' = Called("markAllAsRead", 0)
     ELSE UNCHANGED <<notifications, ntOp>>
  /\ UNCHANGED notNt

\* the Close button of the dropdown
NtClose ==
  /\ notifOpen
  /\ notifOpen' = FALSE
  /\ UNCHANGED <<notifications, ntOp>>
  /\ UNCHANGED notNt

\* the remove button of the entry at position i of the open dropdown
NtRemove(i) ==
  /\ notifOpen
  /\ i \in DOMAIN notifications
  /\ notifications' = removeNotification(notifications, notifications[i].id)
  /\ ntOp' = Called("removeNotification", notifications[i].id)
  /\ UNCHANGED notifOpen
  /\ UNCHANGED notNt

NextNt ==
  \/ \E id \in NotificationIds : NtArrive(id)
  \/ NtBell
  \/ NtClose
  \/ \E i \in 1..MaxNotifications : NtRemove(i)

\* ------------------------------------------------------------------------
\* Dark mode: App and the useDarkMode hook of ForecastingScreen
\* ------------------------------------------------------------------------

ThemeOf(dark) == IF dark THEN "dark" ELSE "light"

\* the initialiser of darkMode: the stored theme if any, else the system's
InitialDarkModeSystemFirst(stored, prefers) ==
  IF prefers THEN TRUE ELSE stored = Some("dark")
InitialDarkMode(stored, prefers) ==
  IF stored # None /\ stored # Some("") THEN stored = Some("dark") ELSE prefers

\* the first visit of a browser that prefers light, after the first effects
InitDm ==
  /\ darkMode = FALSE
  /\ lsTheme = Some("light")
  /\ rootDark = FALSE
  /\ prefersDark = FALSE
  /\ dmStart = [stored |-> None, prefers |-> FALSE, darkMode |-> FALSE]
  /\ fsMounted = FALSE
  /\ isDark = FALSE

\* the page starts with this stored theme: App's first render and effects.
\* On the forecasting route the screen's effects run before App's, so its
\* observer sees the class being added; removing a class that is not there
\* changes no attribute.
AppStarted(stored, onForecasting) ==
  /\ darkMode' = InitialDarkMode(stored, prefersDark)
  /\ dmStart' = [stored |-> stored, prefers |-> prefersDark,
                 darkMode |-> InitialDarkMode(stored, prefersDark)]
  /\ rootDark' = darkMode'
  /\ lsTheme' = Some(ThemeOf(darkMode'))
  /\ fsMounted' = onForecasting
  /\ isDark' = IF onForecasting THEN (IF darkMode' THEN TRUE ELSE prefersDark) ELSE FALSE
  /\ UNCHANGED prefersDark

\* the toggle of HeaderActions: setDarkMode(d => !d), then the effect; the
\* observer of a mounted ForecastingScreen reads the class
DmToggle ==
  /\ darkMode' = ~darkMode
  /\ rootDark' = darkMode'
  /\ lsTheme' = Some(ThemeOf(darkMode'))
  /\ isDark' = IF fsMounted THEN rootDark' ELSE isDark
  /\ UNCHANGED <<prefersDark, dmStart, fsMounted>>
  /\ UNCHANGED notDm

\* the system colour scheme changes; the media-query handler of a mounted
\* ForecastingScreen sets isDark to e.matches
DmSystemChange ==
  /\ prefersDark' = ~prefersDark
  /\ isDark' = IF fsMounted THEN prefersDark' ELSE isDark
  /\ UNCHANGED <<darkMode, lsTheme, rootDark, dmStart, fsMounted>>
  /\ UNCHANGED notDm

\* navigation to /forecasting: useState's initialiser reads the media query
FsMount ==
  /\ ~fsMounted
  /\ fsMounted' = TRUE
  /\ isDark' = prefersDark
  /\ UNCHANGED <<darkMode, lsTheme, rootDark, prefersDark, dmStart>>
  /\ UNCHANGED notDm

\* navigation away from /forecasting
FsUnmount ==
  /\ fsMounted
  /\ fsMounted' = FALSE
  /\ isDark' = FALSE
  /\ UNCHANGED <<darkMode, lsTheme, rootDark, prefersDark, dmStart>>
  /\ UNCHANGED notDm

\* ------------------------------------------------------------------------
\* ForecastingScreen: chart data alignment
\* ------------------------------------------------------------------------

\* bound on the number of points of the historical and of the forecast series
MaxPoints == 2

\* the UTF-16 code units of a two-digit and of a four-digit number
Digits2(n) == <<48 + (n \div 10), 48 + (n % 10)>>
Digits4(n) == Digits2(n \div 100) \o Digits2(n % 100)

\* an ISO-8601 calendar date as the string the response carries: YYYY-MM-DD
IsoDate(y, m, d) == Digits4(y) \o <<45>> \o Digits2(m) \o <<45>> \o Digits2(d)

ChartDates == {IsoDate(2023, 12, 31), IsoDate(2024, 1, 9), IsoDate(2024, 1, 10)}

\* the points of a series: a date (or null) and a value (or null)
HistoricalPoints == [Date : {Some(dt) : dt \in ChartDates}, Forecast : {Some(0), Some(80)}]
ForecastPoints == [Date : {Some(dt) : dt \in ChartDates} \cup {None}, Forecast : {None, Some(95)}]

\* what a render finds in historical, forecasted and anomalies
ChartResults ==
  [historical : UNION { [1..n -> HistoricalPoints] : n \in 0..MaxPoints },
   forecasted : UNION { [1..n -> ForecastPoints] : n \in 0..MaxPoints },
   anomalies : {<< >>} \cup { <<[Date |-> Some(dt)]>> : dt \in ChartDates }]

\* the order of Array.prototype.sort() without a comparator: strings by
\* their UTF-16 code units
RECURSIVE CodeUnitLess(_, _)
CodeUnitLess(a, b) ==
  IF b = << >> THEN FALSE
  ELSE IF a = << >> THEN TRUE
  ELSE IF Head(a) # Head(b) THEN Head(a) < Head(b)
  ELSE CodeUnitLess(Tail(a), Tail(b))

\* series.map(f => f.Date).filter(Boolean): null and '' are dropped
DatesOf(series) ==
  LET present == SelectSeq(series, LAMBDA f : f.Date # None /\ f.Date # Some(<< >>))
  IN [i \in DOMAIN present |-> present[i].Date[1]]

\* Array.from(new Set(xs)): the first occurrence of each element, in order
RECURSIVE Unique(_)
Unique(xs) ==
  IF xs = << >> THEN << >>
  ELSE LET front == Unique(SubSeq(xs, 1, Len(xs) - 1))
           last == xs[Len(xs)]
       IN IF \E i \in DOMAIN front : front[i] = last THEN front ELSE Append(front, last)

\* Array.from(new Set([...histDates, ...forecastDates])).sort()
AllDates(historical, forecasted) ==
  SortSeq(Unique(DatesOf(historical) \o DatesOf(forecasted)), CodeUnitLess)

\* Object.fromEntries(series.map(f => [f.Date, f.Forecast]))[date] ?? null:
\* the value of the last point with that date, null when there is none
ValueAtOrNull(series, date) ==
  LET at == {i \in DOMAIN series : series[i].Date = Some(date)}
      v == IF at = {} THEN None
           ELSE series[CHOOSE i \in at : \A j \in at : j <= i].Forecast
  IN IF v = Some(0) THEN None ELSE v
ValueAt(series, date) ==
  LET at == {i \in DOMAIN series : series[i].Date = Some(date)}
  IN IF at = {} THEN None
     ELSE series[CHOOSE i \in at : \A j \in at : j <= i].Forecast

\* anomalyDates.includes(date)
IsAnomaly(anomalies, date) == \E i \in DOMAIN anomalies : anomalies[i].Date = Some(date)

\* the chart data of a render
ChartData(result) ==
  LET allDates == AllDates(result.historical, result.forecasted)
      anomalyPoints == [i \in DOMAIN allDates |-> IsAnomaly(result.anomalies, allDates[i])]
  IN [labels |-> allDates,
      histData |-> [i \in DOMAIN allDates |-> ValueAt(result.historical, allDates[i])],
      forecastData |-> [i \in DOMAIN allDates |-> ValueAt(result.forecasted, allDates[i])],
      pointBackgroundColor |->
        [i \in DOMAIN allDates |->
           IF anomalyPoints[i] THEN "rgba(239,68,68,1)" ELSE "rgba(16,185,129,1)"]]

InitCh ==
  /\ chResult = None
  /\ chChart = None

\* the render that follows a response
RenderChart ==
  /\ chResult = None
  /\ \E result \in ChartResults :
       /\ chResult' = Some(result)
       /\ chChart' = Some(ChartData(result))
  /\ UNCHANGED notCh

\* fetchForecast empties the result state
ChartCleared ==
  /\ chResult # None
  /\ chResult' = None
  /\ chChart' = None
  /\ UNCHANGED notCh

NextCh ==
  \/ RenderChart
  \/ ChartCleared

\* ------------------------------------------------------------------------
\* TemporalPatternsScreen: Retry
\* ------------------------------------------------------------------------

\* the page starts anew: every component is back in its state after
\* construction, with the stored theme the browser holds; the backend's
\* Dataset Store is not touched
PageStarted(stored, onForecasting) ==
  /\ selectedCountry' = EMPTY
  /\ selectedCity' = EMPTY
  /\ selectedPollutant' = EMPTY
  /\ startDate' = EMPTY
  /\ endDate' = EMPTY
  /\ countries' = << >>
  /\ cities' = << >>
  /\ pollutants' = << >>
  /\ data' = NoData
  /\ loading' = TRUE
  /\ dataReqs' = IssueData(<< >>, EMPTY, EMPTY, EMPTY, EMPTY, EMPTY)
  /\ citiesReqs' = << >>
  /\ metaReqs' = {"countries", "pollutants"}
  /\ latestDone' = "pending"
  /\ changes' = 0
  /\ urlCriteria' = Criteria(EMPTY, EMPTY, EMPTY, EMPTY, EMPTY)
  /\ urlBuilt' = DataUrl(EMPTY, EMPTY, EMPTY, EMPTY, EMPTY)
  /\ cardData' = << >>
  /\ avgCard' = AvgAQICard(<< >>)
  /\ notifications' = << >>
  /\ cmpMode' = "city"
  /\ cmpOptions' = << >>
  /\ cmpSelected' = << >>
  /\ cmpResults' = None
  /\ cmpLoading' = FALSE
  /\ cmpError' = ""
  /\ cmpBenchmark' = None
  /\ cmpK' = InitialK
  /\ cmpOptionReqs' = <<"city">>
  /\ cmpPosts' = << >>
  /\ cmpEvents' = 0
  /\ fcCities' = << >>
  /\ fcPollutants' = << >>
  /\ fcSelectedCity' = ""
  /\ fcSelectedPollutant' = "AQI"
  /\ fcResult' = NoResult
  /\ fcLoading' = FALSE
  /\ fcError' = ""
  /\ fcScenarioPollutant' = "NO2 (ppb)"
  /\ fcScenarioReduction' = 0
  /\ fcShowScenario' = FALSE
  /\ fcListReqs' = {"cities", "pollutants"}
  /\ fcReqs' = << >>
  /\ fcEvents' = 0
  /\ correlations' = None
  /\ corrLoading' = TRUE
  /\ corrError' = ""
  /\ corrFetching' = TRUE
  /\ sjX' = << >>
  /\ sjY' = << >>
  /\ sjMaxPoints' = DefaultMaxPoints
  /\ sjPoints' = << >>
  /\ sjCalled' = FALSE
  /\ markerAqi' = None
  /\ markerColor' = getAQIColor(None)
  /\ scScatter' = None
  /\ scRender' = None
  /\ pcCityData' = << >>
  /\ pcDominant' = None
  /\ ctCityData' = None
  /\ ctLoading' = TRUE
  /\ ctError' = ""
  /\ ctFetching' = TRUE
  /\ ctRows' = << >>
  /\ ctBadge' = None
  /\ notifOpen' = FALSE
  /\ ntOp' = None
  /\ chResult' = None
  /\ chChart' = None
  /\ tpData' = None
  /\ tpLoading' = TRUE
  /\ tpError' = ""
  /\ tpFetching' = TRUE
  /\ AppStarted(stored, onForecasting)
  /\ UNCHANGED dsVars

\* window.location.reload()
PageReloaded == PageStarted(lsTheme, FALSE)

\* the Retry button of the error view
TpRetry ==
  /\ ~tpLoading
  /\ tpError # ""
  /\ tpReloads < MaxReloads
  /\ tpReloads' = tpReloads + 1
  /\ PageReloaded

NextTp ==
  \/ \E body \in TemporalBodies, id \in NotificationIds : TpResponse(body, id)
  \/ \E id \in NotificationIds : TpFailure(id)
  \/ TpRetry

\* the page is loaded again, with the stored theme or after the site data
\* were cleared, on the forecasting route or another
DmStart(stored, onForecasting) ==
  /\ PageStarted(stored, onForecasting)
  /\ UNCHANGED tpReloads

NextDm ==
  \/ DmToggle
  \/ DmSystemChange
  \/ FsMount
  \/ FsUnmount
  \/ \E stored \in {None, lsTheme}, onForecasting \in BOOLEAN : DmStart(stored, onForecasting)

\* ------------------------------------------------------------------------
\* Specifications
\* ------------------------------------------------------------------------

Init ==
  /\ InitApp /\ InitUrl /\ InitCards /\ InitNotifications /\ InitCmp
  /\ InitFc /\ InitCorr /\ InitSj /\ InitMap
  /\ InitSc /\ InitPc /\ InitTp /\ InitCt /\ InitDs /\ InitNt /\ InitDm /\ InitCh

\* the dashboard
SpecApp == Init /\ [][NextApp]_vars

\* the data effect's URL for arbitrary filter values
NextUrl ==
  \E country \in UrlCountries, city \in UrlCities, pollutant \in UrlPollutants,
     start \in StartDates, end \in EndDates :
    BuildDataUrl(country, city, pollutant, start, end)

SpecUrl == Init /\ [][NextUrl]_vars

\* the summary cards for arbitrary /data responses
NextCards == \E rows \in DataBodies : RenderCards(rows)

SpecCards == Init /\ [][NextCards]_vars

\* the comparative-analysis screen
SpecCmp == Init /\ [][NextCmp]_vars

\* the forecasting screen
SpecFc == Init /\ [][NextFc]_vars

\* the correlation screen
SpecCorr == Init /\ [][NextCorr]_vars

\* sampleAndJitter applied to arbitrary arrays
SpecSj == Init /\ [][NextSj]_vars

\* getAQIColor applied to an arbitrary AQI
SpecMap == Init /\ [][NextMap]_vars

\* the renders of one scatterplot
SpecSc == Init /\ [][NextSc]_vars

\* the dominant pollutant of arbitrary city data
SpecPc == Init /\ [][NextPc]_vars

\* the temporal-patterns screen and the forecasting screen
NextTpFc == NextTp \/ NextFc

SpecTp == Init /\ [][NextTpFc]_vars

\* the city-trends screen
SpecCt == Init /\ [][NextCt]_vars

\* the dataset store
SpecDs == Init /\ [][NextDs]_vars

\* the notification centre
SpecNt == Init /\ [][NextNt]_vars

\* the header: notification centre and dark mode
NextHeader == NextNt \/ NextDm
SpecHeader == Init /\ [][NextHeader]_vars

\* the forecast chart
SpecCh == Init /\ [][NextCh]_vars

\* ------------------------------------------------------------------------
\* Properties
\* ------------------------------------------------------------------------

\* C1: once no /data request is in flight and the most recently issued one
\* (the one for the current filter values) has succeeded, data holds the
\* response of that request, whatever the order the responses arrived in.
C1_DataIsForCurrentFilters ==
  (dataReqs = << >> /\ latestDone = "ok")
    => data = ResponseTo(DataUrl(selectedCountry, selectedCity, selectedPollutant,
                                 startDate, endDate))

\* C2: a null coefficient of a successfully loaded response (pearson,
\* spearman, scatter slope or r2, a time-lag correlation, a partial
\* correlation) is shown as N/A or omitted, and the tables are rendered.
C2_NullCoefficientsSurfaced ==
  (correlations # None /\ ~corrLoading /\ corrError = "")
    => LET view == CorrelationScreen(corrLoading, corrError, correlations)
       IN /\ view.screen = "tables"
          /\ Len(view.cells) = Len(RenderCells(correlations[1]))
          /\ \A i \in DOMAIN view.cells :
               view.cells[i].coef = None => view.cells[i].out \in {NotAvailable, Omitted}

\* C3: an observation whose AQI is missing does not count as 0: the Avg AQI
\* card shows the mean of the AQI values that are present.
C3_AvgIgnoresMissing ==
  (\E i \in DOMAIN cardData : cardData[i].AQI # None) => avgCard = AvgOfPresent(cardData)

\* C4: the /data URL carries exactly the non-empty criteria among country,
\* city, pollutant, start_date and end_date, joined by "&"; with all five
\* empty it has no query string.
C4_UrlCarriesNonEmptyCriteria ==
  /\ QueryPairs(urlBuilt) = CriteriaPairs(urlCriteria)
  /\ CriteriaPairs(urlCriteria) = << >> => urlBuilt = <<API_BASE, "/data">>

\* C4 witness: a URL built from a country that needs escaping and a date
C4_Witness ==
  /\ urlCriteria.country = TandT
  /\ urlCriteria.city = EMPTY
  /\ urlCriteria.pollutant = NO2ppb
  /\ urlCriteria.end_date = Day2
  /\ Len(QueryPairs(urlBuilt)) = 3


\* C5: every comparative-analysis request in flight carries at least 2
\* selections, and no request is started while another one is loading: at
\* most one is in flight, and loading is set while it is.
C5_RequestsCarryTwoSelections ==
  /\ \A i \in DOMAIN cmpPosts : Len(cmpPosts[i].selections) >= 2
  /\ Len(cmpPosts) <= 1
  /\ cmpPosts # << >> => cmpLoading

\* C5 witness: after a switch to country mode, a request with two
\* countries is in flight
C5_Witness ==
  /\ Len(cmpPosts) = 1
  /\ cmpPosts[1].mode = "country"
  /\ Len(cmpPosts[1].selections) = 2
  /\ cmpLoading

\* C6: the cluster count k of every comparative-analysis request in flight
\* is an integer in 2..6, whatever was entered in the Clusters (k) input.
C6_KWithinBounds == \A i \in DOMAIN cmpPosts : cmpPosts[i].k \in 2..6

\* the request a step adds to the forecast requests in flight
Sent(before, after) == after[Len(after)]
IsSend(before, after) == Len(after) = Len(before) + 1

\* C7: a step that sends a forecast request sends POST /api/forecast with an
\* emission_reduction mapping exactly when the scenario is on and the
\* reduction is above 0, and GET /api/forecast without one otherwise; either
\* way it carries the selected, non-empty city, the selected pollutant and
\* periods = 30.
C7_RequestFollowsScenario ==
  [][ IsSend(fcReqs, fcReqs') =>
        LET r == Sent(fcReqs, fcReqs')
        IN /\ r.url = "/api/forecast"
           /\ r.method = IF fcShowScenario /\ fcScenarioReduction > 0 THEN "POST" ELSE "GET"
           /\ ("emission_reduction" \in DOMAIN r.payload) <=> (r.method = "POST")
           /\ DOMAIN r.payload \subseteq {"city", "pollutant", "periods", "emission_reduction"}
           /\ r.payload.city = fcSelectedCity
           /\ fcSelectedCity # ""
           /\ r.payload.pollutant = fcSelectedPollutant
           /\ r.payload.periods = 30 ]_vars

\* C7 witness: a scenario request is in flight for a pollutant other than
\* the default one
C7_Witness ==
  /\ Len(fcReqs) = 1
  /\ fcReqs[1].method = "POST"
  /\ fcReqs[1].payload.pollutant = "PM2.5"
  /\ fcLoading

\* C8: the emission_reduction mapping of a request being sent has exactly one
\* entry, its key is a pollutant other than AQI, and its value is
\* scenarioReduction / 100, a fraction in [0, 1].
C8_ReductionIsOneFraction ==
  [][ (IsSend(fcReqs, fcReqs') /\ Sent(fcReqs, fcReqs').method = "POST") =>
        LET er == Sent(fcReqs, fcReqs').payload.emission_reduction
        IN /\ Cardinality(DOMAIN er) = 1
           /\ "AQI" \notin DOMAIN er
           /\ DOMAIN er = {fcScenarioPollutant}
           /\ \A p \in DOMAIN er :
                /\ er[p].den > 0
                /\ er[p].num * 100 = fcScenarioReduction * er[p].den
                /\ 0 <= er[p].num
                /\ er[p].num <= er[p].den ]_vars

\* C8 witness: a request is in flight that reduces PM2.5 by all of it
C8_Witness ==
  /\ Len(fcReqs) = 1
  /\ fcReqs[1].method = "POST"
  /\ DOMAIN fcReqs[1].payload.emission_reduction = {"PM2.5"}
  /\ fcReqs[1].payload.emission_reduction["PM2.5"].num = 100

\* the ordinal category a colour stands for: its position in AQI_COLORS,
\* 0 for a colour of no category
Category(color) ==
  IF \E i \in DOMAIN AQI_COLORS : AQI_COLORS[i].color = color
  THEN CHOOSE i \in DOMAIN AQI_COLORS :
         /\ AQI_COLORS[i].color = color
         /\ \A j \in DOMAIN AQI_COLORS : AQI_COLORS[j].color = color => i <= j
  ELSE 0

\* the category of the standard breakpoints: 1 Good, 2 Moderate, 3 Unhealthy
\* for Sensitive Groups, 4 Unhealthy, 5 Very Unhealthy, 6 Hazardous
StandardCategory(aqi) ==
  IF aqi <= 50 THEN 1
  ELSE IF aqi <= 100 THEN 2
  ELSE IF aqi <= 150 THEN 3
  ELSE IF aqi <= 200 THEN 4
  ELSE IF aqi <= 300 THEN 5
  ELSE 6

\* C9: the colour of a marker is the colour of the standard category of its
\* AQI (Hazardous from 301 on, above 500 too), the neutral grey of no
\* category for a null AQI, and no lower AQI has a higher category.
C9_ColorFollowsBreakpoints ==
  IF markerAqi = None
  THEN markerColor = "#bdbdbd" /\ Category(markerColor) = 0
  ELSE /\ Category(markerColor) = StandardCategory(markerAqi[1])
       /\ markerColor = AQI_COLORS[StandardCategory(markerAqi[1])].color
       /\ \A lower \in 0..markerAqi[1] :
            Category(getAQIColor(Some(lower))) <= Category(markerColor)

\* C9 witness: a marker at a breakpoint
C9_Witness == markerAqi = Some(50) /\ markerColor = "#43a047"

\* the point pt is the input point of index i, moved by the jitter
FromIndex(pt, i) ==
  /\ pt.x - Quarter * sjX[i] \in {Jitter(r) : r \in RandomDraws}
  /\ pt.y - Quarter * sjY[i] \in {Jitter(r) : r \in RandomDraws}

\* C10: a call returns min(length(x), maxPoints) points, each from an index
\* of its own; when the length does not exceed maxPoints they are all the
\* input points, in input order.
C10_SampleWithoutReplacement ==
  sjCalled =>
    /\ Len(sjPoints) = Min(Len(sjX), sjMaxPoints)
    /\ \E f \in [DOMAIN sjPoints -> DOMAIN sjX] :
         /\ \A p, q \in DOMAIN sjPoints : p # q => f[p] # f[q]
         /\ \A p \in DOMAIN sjPoints : FromIndex(sjPoints[p], f[p])
    /\ Len(sjX) <= sjMaxPoints =>
         \A p \in DOMAIN sjPoints : FromIndex(sjPoints[p], p)

\* C10 witness: two points sampled out of three, the later index first
C10_Witness ==
  /\ sjCalled
  /\ Len(sjX) = 3
  /\ sjMaxPoints = 2
  /\ Len(sjPoints) = 2
  /\ FromIndex(sjPoints[1], 3)
  /\ FromIndex(sjPoints[2], 1)

\* the point pt is point i of the scatter, moved by the jitter
FromPoint(pt, scatter, i) ==
  /\ pt.x - Quarter * scatter.x[i] \in {Jitter(r) : r \in RandomDraws}
  /\ pt.y - Quarter * scatter.y[i] \in {Jitter(r) : r \in RandomDraws}

\* C11: a render of a scatterplot shows the regression line through the
\* least and the greatest x of the whole response and the R2 of the
\* response, and a render that follows another one, whatever sample and
\* jitter each drew, shows the same line and the same R2.
C11_RegressionIgnoresSample ==
  [][ scRender' # None =>
        /\ scRender # None =>
             /\ scRender'[1].line = scRender[1].line
             /\ scRender'[1].r2 = scRender[1].r2
        /\ scRender'[1].line # None =>
             /\ \A k \in DOMAIN scScatter'[1].x :
                  /\ scRender'[1].line[1][1].x <= scScatter'[1].x[k]
                  /\ scScatter'[1].x[k] <= scRender'[1].line[1][2].x
             /\ scRender'[1].line[1][1].x \in Range(scScatter'[1].x)
             /\ scRender'[1].line[1][2].x \in Range(scScatter'[1].x) ]_vars

\* C11 witness: a render that sampled the second of two points with
\* different x, and shows the regression line
C11_Witness ==
  /\ scRender # None
  /\ Len(scScatter[1].x) = 2
  /\ scScatter[1].x[1] # scScatter[1].x[2]
  /\ Len(scRender[1].points) = 1
  /\ FromPoint(scRender[1].points[1], scScatter[1], 2)
  /\ scRender[1].line # None

\* C12: the dominant pollutant shown is one of the city's pollutants, its
\* percentage is at least that of every other pollutant of the city, and no
\* pollutant before it in the response order has the same percentage.
C12_DominantIsFirstArgmax ==
  pcDominant # None =>
    LET dominant == pcDominant[1]
    IN /\ dominant.idx \in DOMAIN pcCityData
       /\ dominant.pollutant = pcCityData[dominant.idx].pollutant
       /\ dominant.pct = pcCityData[dominant.idx].percentage_contribution
       /\ \A i \in DOMAIN pcCityData : pcCityData[i].percentage_contribution <= dominant.pct
       /\ \A i \in 1..(dominant.idx - 1) : pcCityData[i].percentage_contribution < dominant.pct

\* C12 witness: the second and the third pollutant tie above the first
C12_Witness ==
  /\ Len(pcCityData) = 3
  /\ pcCityData[1].percentage_contribution = 10
  /\ pcCityData[2].percentage_contribution = 30
  /\ pcCityData[3].percentage_contribution = 30
  /\ pcDominant # None
  /\ pcDominant[1].pollutant = "PM10"

RowShows(row, m) ==
  /\ row.Year = m.Year
  /\ row.Month = PadStart2(m.Month)
  /\ row.AQI = 10 * m.AQI

\* C14: the Pollution Spikes table of a city lists exactly the aggregate
\* points whose AQI exceeds the 90th percentile of the city's AQI values, one
\* row each, in chronological order; for the series 80, 85, 90, 95, 300, 88,
\* 82 it lists exactly the point with AQI 300.
C14_SpikesAbovePercentile ==
  ctCityData # None =>
    LET monthly == ctCityData[1].monthly_avg_aqi
        series == [i \in DOMAIN monthly |-> monthly[i].AQI]
        above == {i \in DOMAIN monthly : 10 * monthly[i].AQI > Percentile90x10(series)}
        PointOf(j) == CHOOSE i \in DOMAIN monthly : RowShows(ctRows[j], monthly[i])
    IN /\ Len(ctRows) = Cardinality(above)
       /\ \A j \in DOMAIN ctRows : \E i \in above : RowShows(ctRows[j], monthly[i])
       /\ \A i \in above : \E j \in DOMAIN ctRows : RowShows(ctRows[j], monthly[i])
       /\ \A j, k \in DOMAIN ctRows : j < k => PointOf(j) < PointOf(k)
       /\ series = ExampleSeries =>
            ctRows = << [Year |-> 2023, Month |-> "05", AQI |-> 3000] >>

\* the table of the example series has been rendered
C14_Witness ==
  /\ ctCityData # None
  /\ [i \in DOMAIN ctCityData[1].monthly_avg_aqi |-> ctCityData[1].monthly_avg_aqi[i].AQI] = ExampleSeries
  /\ Len(ctRows) = 1

TrendLabels == {"improving", "deteriorating", "stable", "insufficient data"}

ValidPair(store, city, country) ==
  /\ city \in distinctCities(store, country)
  /\ \A o \in store : o.City = city => o.Country = country

KeptPositions(ns, id) == {i \in DOMAIN ns : ns[i].id # id}
\* the j-th of them
KeptAt(ns, id, j) ==
  CHOOSE i \in KeptPositions(ns, id) :
    Cardinality({k \in KeptPositions(ns, id) : k <= i}) = j

\* C17: unreadCount is the number of entries whose read flag is false;
\* addNotification puts the new entry first and unread and keeps the rest;
\* markAllAsRead leaves no entry unread and keeps length, order and the
\* other fields; removeNotification(id) removes exactly the entries with
\* that id and keeps every other entry, in order, with its read flag.
C17_NotificationListOperations ==
  [][ /\ unreadCount(notifications') =
           Cardinality({i \in DOMAIN notifications' : ~notifications'[i].read})
      /\ ntOp' # ntOp =>
           LET op == ntOp'[1]
               before == notifications
               after == notifications'
           IN /\ op.name = "addNotification" =>
                   /\ after # << >>
                   /\ after[1].id = op.id
                   /\ ~after[1].read
                   /\ Tail(after) = before
                   /\ unreadCount(after) = unreadCount(before) + 1
              /\ op.name = "markAllAsRead" =>
                   /\ unreadCount(after) = 0
                   /\ Len(after) = Len(before)
                   /\ \A i \in DOMAIN before :
                        after[i] = [before[i] EXCEPT !.read = TRUE]
              /\ op.name = "removeNotification" =>
                   /\ \A i \in DOMAIN after : after[i].id # op.id
                   /\ Len(after) = Cardinality(KeptPositions(before, op.id))
                   /\ \A j \in DOMAIN after : after[j] = before[KeptAt(before, op.id, j)]
    ]_vars

\* an entry was removed from a list that keeps a read and an unread entry
C17_Witness ==
  /\ ntOp # None
  /\ ntOp[1].name = "removeNotification"
  /\ Len(notifications) = 2
  /\ unreadCount(notifications) = 1

\* C18: while the dropdown is open every notification is marked read and
\* the bell shows no badge.
C18_OpenMeansAllRead ==
  notifOpen =>
    /\ \A i \in DOMAIN notifications : notifications[i].read
    /\ Badge(notifications) = None

\* C19: localStorage 'theme' is 'dark' and the root has the class 'dark'
\* exactly when darkMode is true, otherwise 'light' and no class; and the
\* darkMode a start-up begins with is the stored theme when one is stored,
\* the system preference only when nothing is.
C19_ThemeFollowsDarkMode ==
  /\ lsTheme = Some(IF darkMode THEN "dark" ELSE "light")
  /\ rootDark = darkMode
  /\ dmStart.stored # None => (dmStart.darkMode <=> dmStart.stored = Some("dark"))
  /\ dmStart.stored = None => (dmStart.darkMode <=> dmStart.prefers)

\* the page started with 'light' stored on a system that prefers dark, and
\* dark mode was then toggled on
C19_Witness ==
  /\ dmStart.stored = Some("light")
  /\ dmStart.prefers
  /\ ~dmStart.darkMode
  /\ darkMode
  /\ lsTheme = Some("dark")
  /\ rootDark

\* C20: while ForecastingScreen is mounted, isDark is true exactly when the
\* root has the class 'dark'.
C20_IsDarkFollowsRootClass ==
  fsMounted => (isDark <=> rootDark)

\* C21: the selected city is empty or a city of the selected country, and
\* the city list holds only cities of the selected country (none when no
\* country is selected), whatever the order of selections, global-search
\* clicks and /cities responses.
C21_CitiesBelongToCountry ==
  /\ selectedCity # EMPTY =>
       /\ selectedCountry # EMPTY
       /\ selectedCity \in Range(CitiesOf(selectedCountry))
  /\ Range(cities) \subseteq
       (IF selectedCountry = EMPTY THEN {} ELSE Range(CitiesOf(selectedCountry)))

\* C22: loading is true whenever at least one /data request is outstanding.
C22_LoadingWhileOutstanding == dataReqs # << >> => loading

\* C23: at most one forecast request is in flight, and loading is true
\* exactly while one is; a request is started only while loading is false
\* and a city is selected, and the step in which a request settles, with a
\* response or a failure, sets loading back to false.
C23_OneForecastInFlight ==
  [][ /\ Len(fcReqs') <= 1
      /\ fcLoading' <=> fcReqs' # << >>
      /\ IsSend(fcReqs, fcReqs') => (~fcLoading /\ fcSelectedCity # "")
      /\ Len(fcReqs') < Len(fcReqs) => ~fcLoading' ]_vars

\* a forecast request for Delhi is in flight
C23_Witness ==
  /\ Len(fcReqs) = 1
  /\ fcLoading
  /\ fcReqs[1].payload.city = "Delhi"

\* the result state that holds this response and nothing else
ResultOf(body) ==
  /\ fcResult.historical = body.historical
  /\ fcResult.forecasted = body.forecast
  /\ fcResult.anomalies = body.anomalies
  /\ fcResult.anomalyThreshold = (IF body.anomaly_threshold = Some(0) THEN None
                                  ELSE body.anomaly_threshold)
  /\ fcResult.pollutantSeries = body.pollutant_series
  /\ fcResult.forecast = body.historical \o body.forecast

\* C24: while an error is shown it is the server's message or 'Failed to
\* fetch forecast' and historical, forecasted, anomalies, anomalyThreshold
\* and pollutantSeries are empty or null; while none is shown and no request
\* is in flight, the result state is empty or holds one response only.
C24_FailureClearsResult ==
  /\ fcError # "" =>
       /\ fcError \in {"Unknown city", "Failed to fetch forecast"}
       /\ fcResult = NoResult
       /\ ~fcLoading
  /\ (fcError = "" /\ ~fcLoading) =>
       \/ fcResult = NoResult
       \/ \E body \in ForecastBodies : ResultOf(body)

\* a run has failed with the server's message after three user events: the
\* city was selected and two runs were started
C24_Witness ==
  /\ fcError = "Unknown city"
  /\ fcResult = NoResult
  /\ fcEvents = 3

\* the calendar day an ISO date string names, as the number yyyymmdd
DateValue(date) ==
  LET digit(i) == date[i] - 48
  IN (((digit(1) * 10 + digit(2)) * 10 + digit(3)) * 10 + digit(4)) * 10000
     + (digit(6) * 10 + digit(7)) * 100
     + (digit(9) * 10 + digit(10))

\* the values a series has for a date
ValuesFor(series, date) ==
  {series[i].Forecast : i \in {k \in DOMAIN series : series[k].Date = Some(date)}}

\* C25: the labels of the forecast chart are the dates of the historical
\* and the forecast series, each once, in ascending order; the historical
\* and the forecast data and the point colours have one entry per label:
\* the series' value for that date, null when it has none, and the colour of
\* an anomaly exactly when the date is in the anomaly list.
C25_ChartAlignedToLabels ==
  chChart # None =>
    LET result == chResult[1]
        chart == chChart[1]
        dates == {result.historical[i].Date[1] :
                    i \in {k \in DOMAIN result.historical : result.historical[k].Date # None}}
                 \cup {result.forecasted[i].Date[1] :
                         i \in {k \in DOMAIN result.forecasted : result.forecasted[k].Date # None}}
    IN /\ {chart.labels[i] : i \in DOMAIN chart.labels} = dates
       /\ Len(chart.labels) = Cardinality(dates)
       /\ \A i, j \in DOMAIN chart.labels :
            i < j => DateValue(chart.labels[i]) < DateValue(chart.labels[j])
       /\ Len(chart.histData) = Len(chart.labels)
       /\ Len(chart.forecastData) = Len(chart.labels)
       /\ Len(chart.pointBackgroundColor) = Len(chart.labels)
       /\ \A i \in DOMAIN chart.labels :
            /\ IF ValuesFor(result.historical, chart.labels[i]) = {}
               THEN chart.histData[i] = None
               ELSE chart.histData[i] \in ValuesFor(result.historical, chart.labels[i])
            /\ IF ValuesFor(result.forecasted, chart.labels[i]) = {}
               THEN chart.forecastData[i] = None
               ELSE chart.forecastData[i] \in ValuesFor(result.forecasted, chart.labels[i])
            /\ chart.pointBackgroundColor[i] = "rgba(239,68,68,1)"
                 <=> \E k \in DOMAIN result.anomalies :
                       result.anomalies[k].Date = Some(chart.labels[i])

\* a chart of three labels whose order is not that of the response, with a
\* historical value of 0 and a forecast point marked as an anomaly
C25_Witness ==
  /\ chChart # None
  /\ Len(chChart[1].labels) = 3
  /\ chChart[1].labels # Unique(DatesOf(chResult[1].historical) \o DatesOf(chResult[1].forecasted))
  /\ \E i \in DOMAIN chChart[1].labels : chChart[1].histData[i] = Some(0)
  /\ \E i \in DOMAIN chChart[1].labels :
       /\ chChart[1].forecastData[i] = Some(95)
       /\ chChart[1].pointBackgroundColor[i] = "rgba(239,68,68,1)"

====
